---- MODULE Spec2Model ----
(***************************************************************************)
(* Huawei workout export -> FIT conversion (huawei_sync).                  *)
(*                                                                         *)
(* Four state machines share the variables below:                          *)
(*   SpecRepair  - the swim-segment repair functions of analyze_swimming,  *)
(*                 applied to bounded segment tables (SpecSprint: the same *)
(*                 functions applied to tables of whole blocks of four);   *)
(*   SpecAnalyze - one run of an analyzer (cycling, indoor cycling,        *)
(*                 strength, swimming) on one workout folder;              *)
(*   SpecBatch   - the batch loop of analyze.main over workout folders     *)
(*                 (SpecSync: runs of analyze.main and of                  *)
(*                 workload_uploader.upload_pending_from_db on one sync    *)
(*                 database);                                              *)
(*   SpecUpload  - one call of workload_uploader.upload_to_strava.         *)
(*                                                                         *)
(* Times are exact rationals held as integers in units of 1/900 second,    *)
(* so that T/3, the 0.6-quantile interpolation, x1.9, x2.2 and x0.45 are   *)
(* all computed without rounding.                                          *)
(***************************************************************************)
EXTENDS Integers, Sequences, FiniteSets, TLC

VARIABLES
    machine,                      \* which state machine this behaviour runs
    \* --- swim repair (analyze_swimming.py) ---
    df_input,                     \* segment table as read
    df_before,                    \* argument of the last repair call
    df_segment_data,              \* current segment table
    pool_length,
    workout_total_time_seconds,
    call,                         \* last repair function called
    fixed_collapsed_start,
    is_sprint_session,
    \* --- one analyzer run ---
    analyzer,                     \* "cycling" | "indoor_cycling" | "strength" | "swimming"
    workout,                      \* the workout folder's content
    outcome,                      \* "pending" | "ok" | "raised"
    error,                        \* the exception raised, "" when none
    messages,                     \* messages added to the FitFileBuilder, in order
    output_file,                  \* "absent" | "old" | "written"
    lap_hr_data,                  \* swimming: heart-rate statistics per segment
    \* --- batch loop (analyze.py main) ---
    workout_dirs,                 \* folders in processing order
    cursor,                       \* index of the next folder
    force,
    analyzed,                     \* indices of the folders whose analyzer returned in this run
    batch_state,                  \* "running" | "finished" | "crashed" | "uploading"
    db,                           \* workouts table: workout id -> row, or NoRow
    fit_files,                    \* workout ids whose FIT file exists in fit_location
    runs,                         \* runs of main (and of the uploader) started so far
    pending,                      \* upload_pending_from_db: workout ids still to upload
    uploads,                      \* workout id -> calls of upload_to_strava for its FIT file
    \* --- one upload (workload_uploader.py upload_to_strava) ---
    upload_state,                 \* "idle" | "ready" | "polling" | "returned"
    attempt,                      \* status polls made so far
    slept,                        \* seconds slept between polls
    status_data,                  \* the last status response, NoResponse before the first
    upload_result,                \* "pending" | "result" | "None": what the call returned
    strava_synced,                \* update_sync_status has been called
    file_path                     \* the FIT file the call uploads

repairVars == <<df_input, df_before, df_segment_data, pool_length,
                workout_total_time_seconds, call, fixed_collapsed_start,
                is_sprint_session>>
analyzeVars == <<analyzer, workout, outcome, error, messages, output_file, lap_hr_data>>
batchVars == <<workout_dirs, cursor, force, analyzed, batch_state, db, fit_files, runs,
               pending, uploads>>
uploadVars == <<upload_state, attempt, slept, status_data, upload_result, strava_synced,
                file_path>>
vars == <<machine, repairVars, analyzeVars, batchVars, uploadVars>>

-----------------------------------------------------------------------------
(* Bounds *)

MaxLen == 12        \* rows of a segment table
MaxOdd == 2         \* rows of a table that are not a plain 28 s length
MaxSamples == 2     \* rows of a heart-rate sample table
MaxTrack == 2       \* track points of a GPX file
MaxDirs == 3        \* workout folders under workout_location
MaxRuns == 2        \* runs of analyze.main
MaxBlocks == 4      \* blocks of four lengths in an interval session

-----------------------------------------------------------------------------
(* Arithmetic helpers *)

U == 9 * 100        \* time units per second

Max(a, b) == IF a >= b THEN a ELSE b
Min(a, b) == IF a <= b THEN a ELSE b

RECURSIVE SumSeq(_)
SumSeq(s) == IF s = << >> THEN 0 ELSE Head(s) + SumSeq(Tail(s))

Column(df, f) == [i \in 1..Len(df) |-> df[i][f]]

RECURSIVE Insert(_, _)
Insert(x, s) ==
    IF s = << >> THEN <<x>>
    ELSE IF x <= Head(s) THEN <<x>> \o s
    ELSE <<Head(s)>> \o Insert(x, Tail(s))

RECURSIVE SortAsc(_)
SortAsc(s) == IF s = << >> THEN << >> ELSE Insert(Head(s), SortAsc(Tail(s)))

\* pandas Series.median(): middle value, or the mean of the two middle values
Median(s) ==
    LET v == SortAsc(s)
        n == Len(v)
    IN  IF n % 2 = 1 THEN v[(n + 1) \div 2]
        ELSE (v[n \div 2] + v[n \div 2 + 1]) \div 2

\* pandas Series.quantile(0.6), linear interpolation at position (n-1)*0.6
Quantile60(s) ==
    LET v == SortAsc(s)
        n == Len(v)
        num == 3 * (n - 1)
        lo == num \div 5
        k == num % 5
    IN  IF k = 0 THEN v[lo + 1]
        ELSE v[lo + 1] + (k * (v[lo + 2] - v[lo + 1])) \div 5

Positive(s) == SelectSeq(s, LAMBDA t: t > 0)

-----------------------------------------------------------------------------
(* Swim-segment repair: analyze_swimming.py *)

NoDuration == 0 - 1     \* get_summary_total_time_seconds returned None

ActiveSegments(df) == SelectSeq(df, LAMBDA r: r.DISTANCE > 0)

\* typical_length_time of detect_sprint_session / add_sprint_rest_segments
TypicalLengthTime(reference) ==
    LET q == Quantile60(reference)
    IN  IF q <= 0 THEN Median(reference) ELSE q

LongThreshold(typical) == Max((typical * 19) \div 10, typical + 25 * U)

MinSwimTime(typical) == Max(8 * U, (typical * 9) \div 20)

\* mutant: the gap has to exceed 120 s
RestGapExceeded(total, active_time) == total - active_time > 120 * U

\* rest_gap >= 120
RestGapReached(total, active_time) == total - active_time >= 120 * U

detect_sprint_session(df, total) ==
    LET active_segments == ActiveSegments(df)
        active_count == Len(active_segments)
        times == Column(active_segments, "TIME")
        reference == Positive(times)
        typical == TypicalLengthTime(reference)
        long_threshold == LongThreshold(typical)
        block_count == active_count \div 4
        boundary_long_count ==
            Cardinality({b \in 0..(block_count - 2) :
                Max(times[4 * b + 4], times[4 * b + 5]) >= long_threshold})
        min_boundary_hits == Max(1, ((block_count - 1) * 35) \div 100)
    IN  IF active_count < 8 \/ active_count % 4 # 0 THEN FALSE
        ELSE IF reference = << >> THEN FALSE
        ELSE IF boundary_long_count >= min_boundary_hits THEN TRUE
        ELSE IF total = NoDuration THEN FALSE
        ELSE RestGapReached(total, SumSeq(times)) /\ block_count >= 2

\* mutant: the rest row keeps the DISTANCE of the row it was copied from
RestRowKeepsDistance(template, rest) ==
    [template EXCEPT !.TIME = rest, !.STROKES = 0, !.SWIM_TYPE = 0]

\* the synthetic rest row built from the row it is attached to
RestRow(template, rest) ==
    [template EXCEPT !.TIME = rest, !.DISTANCE = 0, !.STROKES = 0, !.SWIM_TYPE = 0]

\* mutant: everything above the minimum swim time becomes rest
DetectedRestDownToMinimum(candidate_time, typical) ==
    IF candidate_time >= LongThreshold(typical)
    THEN Max(0, candidate_time - MinSwimTime(typical))
    ELSE 0

\* lines 115-119: detected_rest
DetectedRest(candidate_time, typical) ==
    IF candidate_time >= LongThreshold(typical)
    THEN Max(0, Min(candidate_time - typical, candidate_time - MinSwimTime(typical)))
    ELSE 0

\* mutant: the block is brought up to 120 s
FallbackRestTwoMinutes(block_swim_time) == Max(0, 120 * U - block_swim_time)

\* line 131: fallback_rest
FallbackRest(block_swim_time) == Max(0, 180 * U - block_swim_time)

\* mutant: every positive shortfall becomes a rest
FallbackKeptWhenPositive(fallback_rest) == fallback_rest > 0

\* line 132: fallback_rest >= 8.0
FallbackKept(fallback_rest) == fallback_rest >= 8 * U

\* one iteration of the boundary loop; st = [adj, before, after]
SprintBoundary(st, block_idx, typical) ==
    LET min_swim_time == MinSwimTime(typical)
        boundary_end_idx == 4 * block_idx + 4
        boundary_next_idx == boundary_end_idx + 1
        end_time == st.adj[boundary_end_idx]
        next_time == st.adj[boundary_next_idx]
        candidate_idx == IF end_time >= next_time THEN boundary_end_idx
                         ELSE boundary_next_idx
        candidate_time == st.adj[candidate_idx]
        detected_rest == DetectedRest(candidate_time, typical)
        block_start == 4 * block_idx + 1
        block_swim_time == SumSeq(SubSeq(st.adj, block_start, block_start + 3))
        fallback_rest == FallbackRest(block_swim_time)
    IN  IF detected_rest >= 8 * U
        THEN IF candidate_idx = boundary_end_idx
             THEN [adj |-> [st.adj EXCEPT ![candidate_idx] =
                                Max(min_swim_time, candidate_time - detected_rest)],
                   before |-> st.before,
                   after |-> [st.after EXCEPT ![boundary_end_idx] = @ + detected_rest]]
             ELSE [adj |-> [st.adj EXCEPT ![candidate_idx] =
                                Max(min_swim_time, candidate_time - detected_rest)],
                   before |-> [st.before EXCEPT ![boundary_next_idx] = @ + detected_rest],
                   after |-> st.after]
        ELSE IF FallbackKept(fallback_rest)
             THEN [st EXCEPT !.after[boundary_end_idx] = @ + fallback_rest]
             ELSE st

RECURSIVE SprintLoop(_, _, _, _)
SprintLoop(st, block_idx, block_count, typical) ==
    IF block_idx >= block_count - 1 THEN st
    ELSE SprintLoop(SprintBoundary(st, block_idx, typical),
                    block_idx + 1, block_count, typical)

\* mutant: a row that gets a rest in front of it is not emitted itself
TransformedRowsRestInstead(row, adjusted, before, after) ==
    (IF before > 0 THEN <<RestRow(row, before)>> ELSE <<[row EXCEPT !.TIME = adjusted]>>)
    \o (IF after > 0 THEN <<RestRow(row, after)>> ELSE << >>)

\* the rows emitted for one active segment (lines 136-155)
TransformedRows(row, adjusted, before, after) ==
    (IF before > 0 THEN <<RestRow(row, before)>> ELSE << >>)
    \o <<[row EXCEPT !.TIME = adjusted]>>
    \o (IF after > 0 THEN <<RestRow(row, after)>> ELSE << >>)

RECURSIVE ConcatRows(_, _, _)
ConcatRows(active, st, index) ==
    IF index > Len(active) THEN << >>
    ELSE TransformedRows(active[index], st.adj[index], st.before[index], st.after[index])
         \o ConcatRows(active, st, index + 1)

add_sprint_rest_segments(df) ==
    LET active_segments == ActiveSegments(df)
        active_count == Len(active_segments)
        times == Column(active_segments, "TIME")
        reference == Positive(times)
        typical == TypicalLengthTime(reference)
        zero == [i \in 1..active_count |-> 0]
        st == SprintLoop([adj |-> times, before |-> zero, after |-> zero],
                         0, active_count \div 4, typical)
    IN  IF active_count < 4 THEN active_segments
        ELSE IF reference = << >> THEN active_segments
        ELSE ConcatRows(active_segments, st, 1)

\* mutant: each part gets round(S / 3) strokes
SplitRowsEqualStrokes(template, first_time, first_distance) ==
    LET third == first_time \div 3
        split_times == <<third, third, first_time - 2 * third>>
    IN  [split_idx \in 1..3 |->
            [template EXCEPT !.TIME = split_times[split_idx],
                             !.DISTANCE = first_distance,
                             !.STROKES = (template.STROKES + 1) \div 3]]

\* the three rows that replace a collapsed first length (lines 192-211)
SplitRows(template, first_time, first_distance) ==
    LET third == first_time \div 3
        split_times == <<third, third, first_time - 2 * third>>
        original_strokes == template.STROKES
        rounded == (original_strokes + 1) \div 3     \* round(S / 3.0), S >= 0
        split_strokes == <<rounded, rounded, original_strokes - 2 * rounded>>
    IN  [split_idx \in 1..3 |->
            [template EXCEPT !.TIME = split_times[split_idx],
                             !.DISTANCE = first_distance,
                             !.STROKES = Max(0, split_strokes[split_idx])]]

\* mutant: four times the typical length time
InflatedThresholdFourfold(typical_length_time) ==
    Max(45 * U, typical_length_time * 4)

\* inflated_threshold = max(45.0, typical_length_time * 2.2)
InflatedThreshold(typical_length_time) ==
    Max(45 * U, (typical_length_time * 22) \div 10)

fix_collapsed_start_lengths(df, pool) ==
    LET active_segments == ActiveSegments(df)
        unchanged == [df |-> df, flag |-> FALSE]
        first_global_index ==
            CHOOSE i \in 1..Len(df) :
                df[i].DISTANCE > 0 /\ \A j \in 1..(i - 1) : df[j].DISTANCE <= 0
        first_active == active_segments[1]
        first_time == first_active.TIME
        first_distance == first_active.DISTANCE
        comparison_window == SubSeq(active_segments, 2, Min(9, Len(active_segments)))
        comparison_times == Positive(Column(comparison_window, "TIME"))
        typical == Median(comparison_times)
        inflated_threshold == InflatedThreshold(typical)
    IN  IF Len(active_segments) < 4 THEN unchanged
        ELSE IF first_distance <= 0 \/ 2 * first_distance > 3 * pool THEN unchanged
        ELSE IF comparison_window = << >> THEN unchanged
        ELSE IF comparison_times = << >> THEN unchanged
        ELSE IF first_time < inflated_threshold THEN unchanged
        ELSE [df |-> SubSeq(df, 1, first_global_index - 1)
                     \o SplitRows(df[first_global_index], first_time, first_distance)
                     \o SubSeq(df, first_global_index + 1, Len(df)),
              flag |-> TRUE]

\* analyze_workout lines 257-273: collapsed-start repair, then sprint repair
RepairPipeline(df, pool, total) ==
    LET fixed == fix_collapsed_start_lengths(df, pool)
        sprint == detect_sprint_session(fixed.df, total)
    IN  [df |-> IF sprint THEN add_sprint_rest_segments(fixed.df) ELSE fixed.df,
         fixed |-> fixed.flag,
         sprint |-> sprint]

-----------------------------------------------------------------------------
(* Segment tables the repair functions are applied to *)

PoolLengths == {15, 25}
Durations == {NoDuration, 400 * U}
OddKinds == {"long", "mid", "rest"}

\* a plain pool length: 25 m in 28 s
PlainRow(i) ==
    [SEGMENT_INDEX |-> i, TIME |-> 28 * U, DISTANCE |-> 25, STROKES |-> 16, SWIM_TYPE |-> 2]

OddRow(kind, i) ==
    IF kind = "long"
    THEN [SEGMENT_INDEX |-> i, TIME |-> 200 * U, DISTANCE |-> 25, STROKES |-> 50, SWIM_TYPE |-> 2]
    ELSE IF kind = "mid"
    THEN [SEGMENT_INDEX |-> i, TIME |-> 85 * U, DISTANCE |-> 25, STROKES |-> 31, SWIM_TYPE |-> 2]
    ELSE [SEGMENT_INDEX |-> i, TIME |-> 30 * U, DISTANCE |-> 0, STROKES |-> 0, SWIM_TYPE |-> 0]

\* tables of up to MaxLen rows, at most MaxOdd of them not plain
SegmentTables ==
    UNION {UNION {{[i \in 1..n |-> IF i \in odd THEN OddRow(kind[i], i) ELSE PlainRow(i)] :
                        kind \in [odd -> OddKinds]} :
                  odd \in {o \in SUBSET (1..n) : Cardinality(o) <= MaxOdd}} :
           n \in 0..MaxLen}

\* interval sessions: blocks of four lengths swum at one pace, the lengths
\* next to a block boundary possibly holding the rest (85 s), and possibly
\* one more length after the last whole block
Paces == {28, 35, 44}

BlockRow(i, pace) == [PlainRow(i) EXCEPT !.TIME = pace * U]

BoundaryPositions(blocks) == UNION {{4 * b, 4 * b + 1} : b \in 1..(blocks - 1)}

BlockTables ==
    UNION {{[i \in 1..(4 * blocks + extra) |->
                IF i \in long THEN OddRow("mid", i) ELSE BlockRow(i, pace)] :
                    long \in SUBSET BoundaryPositions(blocks), pace \in Paces,
                    extra \in 0..1} :
           blocks \in 1..MaxBlocks}

IdleRepair ==
    /\ df_input = << >>
    /\ df_before = << >>
    /\ df_segment_data = << >>
    /\ pool_length = 0
    /\ workout_total_time_seconds = NoDuration
    /\ call = "none"
    /\ fixed_collapsed_start = FALSE
    /\ is_sprint_session = FALSE

IdleAnalyze ==
    /\ analyzer = "none"
    /\ workout = << >>
    /\ outcome = "pending"
    /\ error = ""
    /\ messages = << >>
    /\ output_file = "absent"
    /\ lap_hr_data = << >>

IdleBatch ==
    /\ workout_dirs = << >>
    /\ cursor = 0
    /\ force = FALSE
    /\ analyzed = {}
    /\ batch_state = "running"
    /\ db = << >>
    /\ fit_files = {}
    /\ runs = 0
    /\ pending = << >>
    /\ uploads = << >>

NoResponse == [ok |-> TRUE, activity_id |-> FALSE, error |-> FALSE]

IdleUpload ==
    /\ upload_state = "idle"
    /\ attempt = 0
    /\ slept = 0
    /\ status_data = NoResponse
    /\ upload_result = "pending"
    /\ strava_synced = FALSE
    /\ file_path = << >>

InitRepair ==
    /\ machine = "repair"
    /\ df_input \in SegmentTables
    /\ df_before = << >>
    /\ df_segment_data = df_input
    /\ pool_length = 0
    /\ workout_total_time_seconds = NoDuration
    /\ call = "none"
    /\ fixed_collapsed_start = FALSE
    /\ is_sprint_session = FALSE
    /\ IdleAnalyze
    /\ IdleBatch
    /\ IdleUpload

InitSprint ==
    /\ machine = "repair"
    /\ df_input \in BlockTables
    /\ df_before = << >>
    /\ df_segment_data = df_input
    /\ pool_length = 0
    /\ workout_total_time_seconds = NoDuration
    /\ call = "none"
    /\ fixed_collapsed_start = FALSE
    /\ is_sprint_session = FALSE
    /\ IdleAnalyze
    /\ IdleBatch
    /\ IdleUpload

\* fix_collapsed_start_lengths(df_segment_data, pool_length)
CallFix ==
    /\ machine = "repair"
    /\ call = "none"
    /\ \E pool \in PoolLengths :
        LET r == fix_collapsed_start_lengths(df_segment_data, pool)
        IN  /\ pool_length' = pool
            /\ df_before' = df_segment_data
            /\ df_segment_data' = r.df
            /\ fixed_collapsed_start' = r.flag
    /\ call' = "fix"
    /\ UNCHANGED <<machine, uploadVars, df_input, workout_total_time_seconds, is_sprint_session,
                   analyzeVars, batchVars>>

\* the same repair applied to its own output
CallFixAgain ==
    /\ machine = "repair"
    /\ call = "fix"
    /\ LET r == fix_collapsed_start_lengths(df_segment_data, pool_length)
       IN  /\ df_before' = df_segment_data
           /\ df_segment_data' = r.df
           /\ fixed_collapsed_start' = r.flag
    /\ call' = "fix2"
    /\ UNCHANGED <<machine, uploadVars, df_input, pool_length, workout_total_time_seconds,
                   is_sprint_session, analyzeVars, batchVars>>

\* detect_sprint_session(df_segment_data, workout_total_time_seconds)
CallDetect ==
    /\ machine = "repair"
    /\ call = "none"
    /\ \E total \in Durations :
        /\ workout_total_time_seconds' = total
        /\ is_sprint_session' = detect_sprint_session(df_segment_data, total)
    /\ df_before' = df_segment_data
    /\ call' = "detect"
    /\ UNCHANGED <<machine, uploadVars, df_input, df_segment_data, pool_length, fixed_collapsed_start,
                   analyzeVars, batchVars>>

\* add_sprint_rest_segments(df_segment_data)
CallAdd ==
    /\ machine = "repair"
    /\ call = "none"
    /\ df_before' = df_segment_data
    /\ df_segment_data' = add_sprint_rest_segments(df_segment_data)
    /\ call' = "add"
    /\ UNCHANGED <<machine, uploadVars, df_input, pool_length, workout_total_time_seconds,
                   fixed_collapsed_start, is_sprint_session, analyzeVars, batchVars>>

\* the repair steps of analyze_workout, lines 257-273
CallPipeline ==
    /\ machine = "repair"
    /\ call = "none"
    /\ \E pool \in PoolLengths, total \in Durations :
        LET r == RepairPipeline(df_segment_data, pool, total)
        IN  /\ pool_length' = pool
            /\ workout_total_time_seconds' = total
            /\ df_segment_data' = r.df
            /\ fixed_collapsed_start' = r.fixed
            /\ is_sprint_session' = r.sprint
    /\ df_before' = df_segment_data
    /\ call' = "pipeline"
    /\ UNCHANGED <<machine, uploadVars, df_input, analyzeVars, batchVars>>

NextRepair == CallFix \/ CallFixAgain \/ CallDetect \/ CallAdd \/ CallPipeline

SpecRepair == InitRepair /\ [][NextRepair]_vars

\* the repair functions applied to interval sessions
SpecSprint == InitSprint /\ [][NextRepair]_vars

-----------------------------------------------------------------------------
(* Claims about the swim-segment repair (SpecRepair) *)

SumTime(df) == SumSeq(Column(df, "TIME"))
SumDistance(df) == SumSeq(Column(df, "DISTANCE"))

\* out is in with the row at position p replaced by three rows of the same
\* identity and DISTANCE, every other row unchanged in its position
SplitAt(in, out, p) ==
    /\ in[p].DISTANCE > 0
    /\ Len(out) = Len(in) + 2
    /\ \A j \in 1..(p - 1) : out[j] = in[j]
    /\ \A j \in (p + 1)..Len(in) : out[j + 2] = in[j]
    /\ \A k \in 0..2 :
        /\ out[p + k].DISTANCE = in[p].DISTANCE
        /\ out[p + k].SEGMENT_INDEX = in[p].SEGMENT_INDEX
        /\ out[p + k].SWIM_TYPE = in[p].SWIM_TYPE

KeptByFix(in, out, flag) ==
    IF flag THEN \E p \in 1..Len(in) : SplitAt(in, out, p) ELSE out = in

\* the active rows of out are the active rows of in, in order, TIME not raised
KeptByAdd(in, out) ==
    LET a == ActiveSegments(in)
        o == ActiveSegments(out)
    IN  /\ Len(o) = Len(a)
        /\ \A i \in 1..Len(a) :
            /\ o[i] = [a[i] EXCEPT !.TIME = o[i].TIME]
            /\ o[i].TIME <= a[i].TIME

\* C2: every segment with DISTANCE > 0 of the input of fix_collapsed_start_lengths
\* is still in its output (the first one possibly as its three-way split), and
\* every one of the input of add_sprint_rest_segments is still in its output
\* (possibly with a reduced TIME), in the same relative order.
C2_ActiveSegmentsKept ==
    /\ call \in {"fix", "fix2"} =>
        KeptByFix(df_before, df_segment_data, fixed_collapsed_start)
    /\ call = "add" => KeptByAdd(df_before, df_segment_data)

\* a split happened in front of later rows, and a sprint repair reduced a TIME
\* and inserted a rest (12 active rows, one of them long)
C2_Witness ==
    \/ /\ call = "fix"
       /\ fixed_collapsed_start
       /\ Len(df_before) >= 5
       /\ df_before[1].DISTANCE = 0
    \/ /\ call = "add"
       /\ Len(ActiveSegments(df_before)) = 12
       /\ Len(df_segment_data) > Len(ActiveSegments(df_before)) + 1
       /\ SumTime(ActiveSegments(df_segment_data)) < SumTime(ActiveSegments(df_before))

\* distance of the first active row of the table that was read
FirstActiveDistance(df) == ActiveSegments(df)[1].DISTANCE

\* C3 (as claimed): the sum of DISTANCE after the repair pipeline equals the
\* sum of DISTANCE over the original segments.
C3_DistanceConserved ==
    call = "pipeline" => SumDistance(df_segment_data) = SumDistance(df_input)

\* C3 (amended): the sum of DISTANCE after the repair pipeline equals the
\* original sum when no collapsed start was split, and the original sum plus
\* twice the distance of the first active segment when it was split; the
\* sprint repair alone leaves the sum unchanged.
C3_DistanceAfterRepair ==
    /\ call = "pipeline" =>
        SumDistance(df_segment_data) =
            SumDistance(df_input)
            + (IF fixed_collapsed_start THEN 2 * FirstActiveDistance(df_input) ELSE 0)
    /\ call = "add" => SumDistance(df_segment_data) = SumDistance(df_before)

\* the pipeline split the first length and then inserted a sprint rest
C3_Witness ==
    /\ call = "pipeline"
    /\ fixed_collapsed_start
    /\ is_sprint_session
    /\ Len(df_segment_data) > Len(df_input) + 2

\* position in df of its first row with DISTANCE > 0
FirstActiveIndex(df) ==
    CHOOSE i \in 1..Len(df) : df[i].DISTANCE > 0 /\ \A j \in 1..(i - 1) : df[j].DISTANCE <= 0

\* the condition under which the first active segment counts as collapsed
CollapsedStart(df, pool) ==
    LET active == ActiveSegments(df)
        D == active[1].DISTANCE
        T == active[1].TIME
        next == Positive(Column(SubSeq(active, 2, Min(9, Len(active))), "TIME"))
    IN  /\ Len(active) >= 4
        /\ 0 < D /\ 2 * D <= 3 * pool
        /\ next # << >>
        /\ T >= 45 * U
        /\ 10 * T >= 22 * Median(next)

\* C19: fix_collapsed_start_lengths splits the first active segment (flag
\* True) exactly when there are at least 4 active segments, its distance D
\* satisfies 0 < D <= 1.5 x pool_length, and its time T satisfies
\* T >= max(45, 2.2 x median of the positive times among the next up to 8
\* active segments); in every other case it returns the input unchanged
\* with flag False.
C19_SplitExactlyWhenCollapsed ==
    call \in {"fix", "fix2"} =>
        /\ fixed_collapsed_start <=> CollapsedStart(df_before, pool_length)
        /\ fixed_collapsed_start => Len(df_segment_data) = Len(df_before) + 2
        /\ ~fixed_collapsed_start => df_segment_data = df_before

\* a first length of 85 s was split with eight typical lengths behind it, and
\* the same table was left alone for a pool of 15 m
C19_Witness ==
    /\ call = "fix"
    /\ Len(ActiveSegments(df_before)) >= 9
    /\ ActiveSegments(df_before)[1].TIME = 85 * U
    /\ \/ fixed_collapsed_start /\ pool_length = 25
       \/ ~fixed_collapsed_start /\ pool_length = 15

\* the example of the split: 90 s and 30 strokes over 25 m
ExampleSplit ==
    SplitRows([SEGMENT_INDEX |-> 1, TIME |-> 90 * U, DISTANCE |-> 25, STROKES |-> 30,
               SWIM_TYPE |-> 2], 90 * U, 25)

\* C20: when fix_collapsed_start_lengths splits a first active segment with
\* time T, distance D and strokes S, it replaces it in place by three
\* consecutive segments each with distance D, whose times are T/3, T/3,
\* T - 2(T/3) and sum exactly to T, and whose non-negative integer strokes sum
\* exactly to S with the last one absorbing the remainder (T = 90, S = 30
\* gives times [30, 30, 30] and strokes [10, 10, 10]); every other segment is
\* copied unchanged in its position.
C20_SplitInThree ==
    /\ (call \in {"fix", "fix2"} /\ fixed_collapsed_start) =>
        LET p == FirstActiveIndex(df_before)
            T == df_before[p].TIME
            S == df_before[p].STROKES
            part == [k \in 1..3 |-> df_segment_data[p + k - 1]]
        IN  /\ SplitAt(df_before, df_segment_data, p)
            /\ 3 * part[1].TIME = T
            /\ part[2].TIME = part[1].TIME
            /\ part[3].TIME = T - 2 * part[1].TIME
            /\ part[1].TIME + part[2].TIME + part[3].TIME = T
            /\ \A k \in 1..3 : part[k].STROKES >= 0
            /\ part[2].STROKES = part[1].STROKES
            /\ 3 * part[1].STROKES \in (S - 1)..(S + 1)
            /\ part[1].STROKES + part[2].STROKES + part[3].STROKES = S
    /\ Column(ExampleSplit, "TIME") = <<30 * U, 30 * U, 30 * U>>
    /\ Column(ExampleSplit, "STROKES") = <<10, 10, 10>>
    /\ Column(ExampleSplit, "DISTANCE") = <<25, 25, 25>>

\* a first length of 85 s and 31 strokes that follows a rest row was split:
\* strokes 10, 10, 11
C20_Witness ==
    /\ call = "fix"
    /\ fixed_collapsed_start
    /\ FirstActiveIndex(df_before) = 2
    /\ df_before[2].STROKES = 31
    /\ Column(SubSeq(df_segment_data, 2, 4), "STROKES") = <<10, 10, 11>>

\* C4: the sum of TIME after fix_collapsed_start_lengths and
\* add_sprint_rest_segments is at least the sum of TIME over the original
\* segments, also for tables that already hold rest rows (DISTANCE = 0,
\* TIME > 0): the repairs never subtract total time.
C4_TimeNeverSubtracted ==
    call = "pipeline" => SumTime(df_segment_data) >= SumTime(df_input)

\* C5: applying fix_collapsed_start_lengths to the output of a first
\* application never splits again: the second call returns its input
\* unchanged with the flag False.
C5_FixIdempotent ==
    call = "fix2" => (~fixed_collapsed_start /\ df_segment_data = df_before)

\* C6: with fewer than 4 segments of DISTANCE > 0 each repair returns its
\* input unchanged: fix_collapsed_start_lengths with flag False,
\* detect_sprint_session False, add_sprint_rest_segments a list equal to its
\* input.
C6_SkippedBelowFourActive ==
    Len(ActiveSegments(df_before)) < 4 =>
        /\ call = "fix" => (~fixed_collapsed_start /\ df_segment_data = df_before)
        /\ call = "detect" => ~is_sprint_session
        /\ call = "add" => df_segment_data = df_before

-----------------------------------------------------------------------------
(* Claims about the sprint repair (SpecSprint, SpecRepair) *)

\* the block boundaries of a table: b stands for the boundary between the
\* active rows 4b and 4b + 1
Boundaries(df) == 1..(Len(ActiveSegments(df)) \div 4 - 1)

\* the boundary's larger adjoining time reaches the long-length threshold
LongBoundary(df, b) ==
    LET times == Column(ActiveSegments(df), "TIME")
    IN  Max(times[4 * b], times[4 * b + 1])
            >= LongThreshold(TypicalLengthTime(Positive(times)))

LongBoundaries(df) == {b \in Boundaries(df) : LongBoundary(df, b)}

\* at least 8 active segments, in whole blocks of four
WholeBlocks(df) ==
    Len(ActiveSegments(df)) >= 8 /\ Len(ActiveSegments(df)) % 4 = 0

\* C21: when the workout duration is unknown, detect_sprint_session
\* classifies a session as sprint exactly when the count of active segments
\* is >= 8 and divisible by 4 and the number of block boundaries whose larger
\* adjoining time reaches the long-length threshold is at least 1 and at
\* least 35% of the number of block boundaries.
C21_SprintByBoundaries ==
    (call = "detect" /\ workout_total_time_seconds = NoDuration) =>
        (is_sprint_session <=>
            /\ WholeBlocks(df_before)
            /\ Cardinality(LongBoundaries(df_before)) >= 1
            /\ 100 * Cardinality(LongBoundaries(df_before))
                    >= 35 * Cardinality(Boundaries(df_before)))

\* C22: when no block boundary reaches the long-length threshold,
\* detect_sprint_session returns true exactly when the count of active
\* segments is >= 8 and divisible by 4 and the workout duration from the
\* summary is known and exceeds the summed time of the active segments by at
\* least 120 seconds; it returns false whenever the active count is below 8
\* or not divisible by 4, whatever the times and duration.
C22_SprintByRestGap ==
    call = "detect" =>
        /\ LongBoundaries(df_before) = {} =>
                (is_sprint_session <=>
                    /\ WholeBlocks(df_before)
                    /\ workout_total_time_seconds # NoDuration
                    /\ workout_total_time_seconds - SumTime(ActiveSegments(df_before))
                            >= 120 * U)
        /\ ~WholeBlocks(df_before) => ~is_sprint_session

\* eight lengths of 35 s in a workout of 400 s: a gap of exactly 120 s
C22_Witness ==
    /\ call = "detect"
    /\ is_sprint_session
    /\ LongBoundaries(df_before) = {}
    /\ workout_total_time_seconds = 400 * U
    /\ SumTime(ActiveSegments(df_before)) = 280 * U

\* position in df of its i-th row with DISTANCE > 0
ActivePosition(df, i) ==
    CHOOSE p \in 1..Len(df) :
        df[p].DISTANCE > 0 /\ Len(ActiveSegments(SubSeq(df, 1, p))) = i

\* a rest segment of time r
IsRest(row, r) ==
    row.DISTANCE = 0 /\ row.STROKES = 0 /\ row.SWIM_TYPE = 0 /\ row.TIME = r

\* the candidate of boundary b: the active row with the larger time, the
\* first of the pair on a tie
Candidate(df, b) ==
    LET times == Column(ActiveSegments(df), "TIME")
    IN  IF times[4 * b] >= times[4 * b + 1] THEN 4 * b ELSE 4 * b + 1

\* the least x with x >= 8 s and x >= 0.45 x typical
SwimFloor(typical) ==
    CHOOSE x \in {8 * U, (9 * typical) \div 20} : x >= 8 * U /\ 20 * x >= 9 * typical

\* r = min(c - typical, c - max(8, 0.45 x typical)) for the candidate of b
ExtractedRest(df, b) ==
    LET times == Column(ActiveSegments(df), "TIME")
        typical == TypicalLengthTime(Positive(times))
        c == times[Candidate(df, b)]
    IN  Min(c - typical, c - SwimFloor(typical))

\* boundary b has a candidate that reaches the threshold with a rest of >= 8 s
Extracts(df, b) ==
    LET times == Column(ActiveSegments(df), "TIME")
        typical == TypicalLengthTime(Positive(times))
    IN  /\ times[Candidate(df, b)] >= LongThreshold(typical)
        /\ ExtractedRest(df, b) >= 8 * U

\* the example: 8 lengths of 28 s with one boundary length of 85 s
ExampleSprint(long) ==
    add_sprint_rest_segments(
        [i \in 1..8 |-> IF i = long THEN OddRow("mid", i) ELSE PlainRow(i)])

\* C23: in add_sprint_rest_segments, at each block boundary the candidate is
\* the adjoining segment with the larger time (the first-of-pair on a tie);
\* when its time c reaches the long threshold and
\* r = min(c - typical, c - max(8, 0.45 x typical)) is at least 8, the output
\* holds a rest segment (DISTANCE 0, STROKES 0, SWIM_TYPE 0) of time r placed
\* immediately before the candidate if it is the second-of-pair and
\* immediately after it if it is the first-of-pair, and the candidate's time
\* becomes c - r, which is at least max(8, 0.45 x typical) (8 lengths of 28 s
\* with one boundary length of 85 s give a 57 s rest and a 28 s length).
C23_RestExtractedAtCandidate ==
    /\ call = "add" =>
        \A b \in Boundaries(df_before) : Extracts(df_before, b) =>
            LET times == Column(ActiveSegments(df_before), "TIME")
                typical == TypicalLengthTime(Positive(times))
                cand == Candidate(df_before, b)
                r == ExtractedRest(df_before, b)
                out == df_segment_data
                p == ActivePosition(out, cand)
            IN  /\ out[p].TIME = times[cand] - r
                /\ out[p].TIME >= SwimFloor(typical)
                /\ IF cand = 4 * b + 1
                   THEN p > 1 /\ IsRest(out[p - 1], r)
                   ELSE p < Len(out) /\ IsRest(out[p + 1], r)
    /\ \A long \in {4, 5} :
        /\ Column(ExampleSprint(long), "TIME")
                = [i \in 1..9 |-> IF i = 5 THEN 57 * U ELSE 28 * U]
        /\ Column(ExampleSprint(long), "DISTANCE")
                = [i \in 1..9 |-> IF i = 5 THEN 0 ELSE 25]

\* two lengths of 85 s meet at a boundary (the first of the pair gives up the
\* rest), and a second-of-pair candidate of 85 s got its rest in front
C23_Witness ==
    /\ call = "add"
    /\ \E b \in Boundaries(df_before) :
        LET times == Column(ActiveSegments(df_before), "TIME")
        IN  /\ Extracts(df_before, b)
            /\ \/ times[4 * b] = 85 * U /\ times[4 * b + 1] = 85 * U
               \/ times[4 * b] = 28 * U /\ times[4 * b + 1] = 85 * U
            /\ IsRest(df_segment_data[ActivePosition(df_segment_data, Candidate(df_before, b))
                                       + (IF Candidate(df_before, b) = 4 * b THEN 1 ELSE 0 - 1)],
                      ExtractedRest(df_before, b))

\* position in out of the last length of block b
BlockEnd(out, b) == ActivePosition(out, 4 * b)

\* the summed time of the four lengths of block b as they stand in out
BlockSwimTime(out, b) ==
    SumSeq([k \in 1..4 |-> out[ActivePosition(out, 4 * b - 4 + k)].TIME])

\* a rest row directly follows the last length of block b
RestAfterBlock(out, b) ==
    BlockEnd(out, b) < Len(out) /\ out[BlockEnd(out, b) + 1].DISTANCE = 0

\* C24: in add_sprint_rest_segments, at a block boundary where no rest is
\* extracted from the candidate, a fallback rest is appended after the last
\* length of the preceding block exactly when the sum s of that block's four
\* segment times is below 180 with 180 - s >= 8, and its time is 180 - s, so
\* the block plus its rest lasts exactly 180 seconds; no rest is ever added
\* after the last block.
C24_FallbackRest ==
    (call = "add" /\ Len(ActiveSegments(df_before)) >= 4) =>
        LET out == df_segment_data
            block_count == Len(ActiveSegments(df_before)) \div 4
        IN  /\ \A b \in Boundaries(df_before) : ~Extracts(df_before, b) =>
                LET t == BlockSwimTime(out, b)
                IN  /\ RestAfterBlock(out, b) <=> (t < 180 * U /\ 180 * U - t >= 8 * U)
                    /\ RestAfterBlock(out, b) =>
                        /\ IsRest(out[BlockEnd(out, b) + 1], 180 * U - t)
                        /\ t + out[BlockEnd(out, b) + 1].TIME = 180 * U
                    /\ out[BlockEnd(out, b) + (IF RestAfterBlock(out, b) THEN 2 ELSE 1)]
                            .DISTANCE > 0
            /\ \A p \in BlockEnd(out, block_count)..Len(out) : out[p].DISTANCE > 0

\* a block whose first length gave up its rest at the boundary before it is
\* filled up from 4 x 28 s to 180 s, and a block of 4 x 44 s gets no rest
C24_Witness ==
    /\ call = "add"
    /\ \E b \in Boundaries(df_before) :
        /\ ~Extracts(df_before, b)
        /\ \/ /\ b > 1
              /\ Extracts(df_before, b - 1)
              /\ Candidate(df_before, b - 1) = 4 * b - 3
              /\ IsRest(df_segment_data[BlockEnd(df_segment_data, b) + 1], 68 * U)
           \/ /\ BlockSwimTime(df_segment_data, b) = 176 * U
              /\ ~RestAfterBlock(df_segment_data, b)

\* the rest rows of out that lie between the lengths of boundary b
RestsAtBoundary(out, b) ==
    {p \in (ActivePosition(out, 4 * b) + 1)..(ActivePosition(out, 4 * b + 1) - 1) :
        out[p].DISTANCE = 0}

RestPositions(out) == {p \in 1..Len(out) : out[p].DISTANCE = 0}

\* C25: every synthetic rest segment that add_sprint_rest_segments inserts
\* has TIME >= 8 seconds, for every input; at most one synthetic rest is
\* inserted per block boundary.
C25_RestsAboveNoiseFloor ==
    call = "add" =>
        LET out == df_segment_data
        IN  /\ \A p \in RestPositions(out) : out[p].TIME >= 8 * U
            /\ \A b \in Boundaries(df_before) : Cardinality(RestsAtBoundary(out, b)) <= 1
            /\ RestPositions(out) = UNION {RestsAtBoundary(out, b) : b \in Boundaries(df_before)}

\* a block of 4 x 44 s, 4 s short of 180 s, got no rest, while a rest was
\* inserted at another boundary of the same table
C25_Witness ==
    /\ call = "add"
    /\ \E b, c \in Boundaries(df_before) :
        /\ BlockSwimTime(df_segment_data, b) = 176 * U
        /\ RestsAtBoundary(df_segment_data, b) = {}
        /\ Cardinality(RestsAtBoundary(df_segment_data, c)) = 1

\* the same segment, whatever its TIME
SameSegment(r, q) == q = [r EXCEPT !.TIME = q.TIME]

\* the rows of in are found in out in the same order
RECURSIVE Embeds(_, _)
Embeds(in, out) ==
    IF in = << >> THEN TRUE
    ELSE IF out = << >> THEN FALSE
    ELSE IF SameSegment(Head(in), Head(out)) THEN Embeds(Tail(in), Tail(out))
    ELSE Embeds(in, Tail(out))

\* C26: the sprint repair only inserts: for every input list, including
\* lists that already contain rest/pause segments (DISTANCE = 0), removing
\* the synthetic rests from the output of add_sprint_rest_segments gives back
\* all the input segments in their original order, and every synthetic rest
\* sits between the last length of one block and the first length of the
\* next.
C26_SprintRepairOnlyInserts ==
    call = "add" =>
        /\ Embeds(df_before, df_segment_data)
        /\ Len(df_segment_data) - Len(df_before)
                = Cardinality(UNION {RestsAtBoundary(df_segment_data, b) :
                                        b \in Boundaries(df_before)})

-----------------------------------------------------------------------------
(* Analyzers: analyze_cycling.py, analyze_indoor_cycling.py,               *)
(* analyze_strength.py, analyze_swimming.py                                *)

\* a speed in m/s as the exact fraction n/d, d > 0
Speed(n, d) == [n |-> n, d |-> d]
SpeedLeq(a, b) == a.n * b.d <= b.n * a.d
MAX_FIT_SPEED_MS == Speed(65535, 1000)
ZeroSpeed == Speed(0, 1)

\* df.loc[df["HEART_RATE"] < 0, "HEART_RATE"] += 255
HeartRatePlus255(h) == IF h < 0 THEN h + 255 ELSE h

\* df["HEART_RATE"].abs()
HeartRateAbs(h) == IF h < 0 THEN 0 - h ELSE h

RECURSIVE InsertByKey(_, _, _)
InsertByKey(x, s, key) ==
    IF s = << >> THEN <<x>>
    ELSE IF x[key] < Head(s)[key] THEN <<x>> \o s
    ELSE <<Head(s)>> \o InsertByKey(x, Tail(s), key)

\* sort_values(key): ascending, rows of equal key keep their order
RECURSIVE SortByKey(_, _)
SortByKey(s, key) ==
    IF s = << >> THEN << >>
    ELSE InsertByKey(s[Len(s)], SortByKey(SubSeq(s, 1, Len(s) - 1), key), key)

RECURSIVE MaxSeq(_)
MaxSeq(s) == IF Len(s) = 1 THEN s[1] ELSE Max(Head(s), MaxSeq(Tail(s)))

RECURSIVE MinSeq(_)
MinSeq(s) == IF Len(s) = 1 THEN s[1] ELSE Min(Head(s), MinSeq(Tail(s)))

\* int(series.mean()) of non-negative integers
IntMean(s) == SumSeq(s) \div Len(s)

\* what a call of analyze_workout leaves behind: the exception or the messages
\* added to the builder, and (swimming) the segment table with its timestamps
\* and the heart-rate statistics of its segments
Raised(err) ==
    [raised |-> TRUE, error |-> err, messages |-> << >>, segments |-> << >>,
     lap_hr_data |-> << >>]
Returned(msgs) ==
    [raised |-> FALSE, error |-> "", messages |-> msgs, segments |-> << >>,
     lap_hr_data |-> << >>]

\* a message with no optional field set
Message(type, timestamp) ==
    [type |-> type, timestamp |-> timestamp, message_index |-> {}, heart_rate |-> {},
     speed |-> {}, distance |-> {}, avg_heart_rate |-> {}, max_heart_rate |-> {},
     total_distance |-> {}, num_sessions |-> {}]

FileIdMessage(start_timestamp) == Message("file_id", start_timestamp * 1000)

SessionMessage(timestamp, avg_heart_rate, max_heart_rate) ==
    [Message("session", timestamp) EXCEPT !.avg_heart_rate = {avg_heart_rate},
                                          !.max_heart_rate = {max_heart_rate}]

ActivityMessage(timestamp) == [Message("activity", timestamp) EXCEPT !.num_sessions = {1}]

\* ---- analyze_cycling.py ----

\* points that carry lat, lon and a time, sorted by timestamp
parse_gpx_points(track) == SortByKey(SelectSeq(track, LAMBDA pt: pt.ok), "timestamp")

\* great-circle distance of two fixes on one meridian, positions in metres
haversine_m(p1, p2) == IF p1 >= p2 THEN p1 - p2 ELSE p2 - p1

\* lines 120-124: heart-rate samples corrected, filtered and sorted
CyclingHeartData(samples) ==
    LET corrected == [i \in 1..Len(samples) |->
                        [samples[i] EXCEPT !.HEART_RATE = HeartRatePlus255(@)]]
    IN  SortByKey(SelectSeq(corrected, LAMBDA r: r.HEART_RATE > 0), "TIMESTAMP")

\* lines 128-141
RECURSIVE CumulativeDistance(_, _)
CumulativeDistance(gpx, idx) ==
    IF idx = 1 THEN 0
    ELSE CumulativeDistance(gpx, idx - 1) + haversine_m(gpx[idx - 1].pos, gpx[idx].pos)

\* mutant: delta / dt whatever dt is
PointSpeedUnguarded(gpx, idx) ==
    IF idx = 1 THEN ZeroSpeed
    ELSE Speed(haversine_m(gpx[idx - 1].pos, gpx[idx].pos),
               gpx[idx].timestamp - gpx[idx - 1].timestamp)

PointSpeed(gpx, idx) ==
    IF idx = 1 THEN ZeroSpeed
    ELSE LET delta == haversine_m(gpx[idx - 1].pos, gpx[idx].pos)
             dt == gpx[idx].timestamp - gpx[idx - 1].timestamp
         IN  IF dt > 0 THEN Speed(delta, dt) ELSE ZeroSpeed

\* mutant: the nearest earlier-or-equal sample, else the first one, whatever its distance
MergeAsofAnyDistance(timestamp, data) ==
    LET back == {i \in 1..Len(data) : data[i].TIMESTAMP <= timestamp}
        pick == IF back = {} THEN 1 ELSE CHOOSE i \in back : \A j \in back : j <= i
    IN  {data[pick].HEART_RATE}

\* pd.merge_asof(direction="nearest", tolerance=5): the heart rate of the
\* nearest sample, the earlier one on a tie, when it is within the tolerance
MergeAsofNearest(timestamp, data) ==
    LET back == {i \in 1..Len(data) : data[i].TIMESTAMP <= timestamp}
        forw == {i \in 1..Len(data) : data[i].TIMESTAMP >= timestamp}
        bri == IF back = {} THEN 0 ELSE CHOOSE i \in back : \A j \in back : j <= i
        fri == IF forw = {} THEN 0 ELSE CHOOSE i \in forw : \A j \in forw : i <= j
        bdiff == timestamp - data[bri].TIMESTAMP
        fdiff == data[fri].TIMESTAMP - timestamp
        pick == IF bri = 0 THEN fri
                ELSE IF fri = 0 THEN bri
                ELSE IF bdiff <= fdiff THEN bri ELSE fri
        diff == IF data[pick].TIMESTAMP >= timestamp
                THEN data[pick].TIMESTAMP - timestamp
                ELSE timestamp - data[pick].TIMESTAMP
    IN  IF pick = 0 THEN {}
        ELSE IF diff <= 5 THEN {data[pick].HEART_RATE} ELSE {}

\* lines 214-228
CyclingRecord(gpx, idx, data) ==
    [Message("record", gpx[idx].timestamp * 1000) EXCEPT
        !.distance = {CumulativeDistance(gpx, idx)},
        !.speed = {PointSpeed(gpx, idx)},
        !.heart_rate = IF data = << >> THEN {} ELSE MergeAsofNearest(gpx[idx].timestamp, data)]

analyze_cycling(w) ==
    LET df_data == CyclingHeartData(w.samples)
        df_gpx == parse_gpx_points(w.track)
        start_timestamp == df_gpx[1].timestamp
        end_timestamp == df_gpx[Len(df_gpx)].timestamp
        heart == Column(df_data, "HEART_RATE")
        avg_heart_rate == IF df_data # << >> THEN IntMean(heart) ELSE 0
        max_heart_rate == IF df_data # << >> THEN MaxSeq(heart) ELSE 0
    IN  IF ~w.data \/ ~w.summary THEN Raised("FileNotFoundError")
        ELSE IF ~w.gpx THEN Raised("FileNotFoundError")
        ELSE IF ~w.summary_has_id THEN Raised("ValueError")
        ELSE IF ~w.heart_rate_column THEN Raised("KeyError")
        ELSE IF df_gpx = << >> THEN Raised("ValueError")
        ELSE Returned(
                <<FileIdMessage(start_timestamp),
                  Message("device_info", start_timestamp * 1000),
                  SessionMessage(end_timestamp * 1000, avg_heart_rate, max_heart_rate)>>
                \o [idx \in 1..Len(df_gpx) |-> CyclingRecord(df_gpx, idx, df_data)]
                \o <<ActivityMessage(end_timestamp * 1000)>>)

\* ---- analyze_indoor_cycling.py ----

\* lines 53-58
IndoorHeartData(samples) ==
    LET sorted == SortByKey(samples, "TIMESTAMP")
        absolute == [i \in 1..Len(sorted) |->
                        [sorted[i] EXCEPT !.HEART_RATE = HeartRateAbs(@)]]
    IN  SelectSeq(absolute, LAMBDA r: r.HEART_RATE > 0)

\* SPEED_MS: SPEED / 10, negative values set to 0
IndoorSpeedMs(speed) == IF speed < 0 THEN ZeroSpeed ELSE Speed(speed, 10)

\* max(0.0, min(speed, MAX_FIT_SPEED_MS))
SafeSpeed(speed) ==
    LET capped == IF SpeedLeq(speed, MAX_FIT_SPEED_MS) THEN speed ELSE MAX_FIT_SPEED_MS
    IN  IF SpeedLeq(ZeroSpeed, capped) THEN capped ELSE ZeroSpeed

\* a distance in metres as the exact fraction n/d, d > 0
Metres(n, d) == [n |-> n, d |-> d]

\* lines 70-79: DISTANCE_M before scaling, in decimetres (SPEED is in dm/s)
RECURSIVE IndoorDerivedDistance(_, _)
IndoorDerivedDistance(df, idx) ==
    IF idx = 1 THEN 0
    ELSE IndoorDerivedDistance(df, idx - 1)
         + IndoorSpeedMs(df[idx - 1].SPEED).n * Max(0, df[idx].TIMESTAMP - df[idx - 1].TIMESTAMP)

\* line 80: total_distance
IndoorTotalDistance(summary_distance, df) ==
    IF summary_distance > 0 THEN Metres(summary_distance, 1)
    ELSE Metres(IndoorDerivedDistance(df, Len(df)), 10)

\* mutant: the derived series is written as it is
IndoorDistanceUnscaled(summary_distance, df, idx) ==
    Metres(IndoorDerivedDistance(df, idx), 10)

\* lines 82-84: DISTANCE_M of row idx, multiplied by total / derived when
\* both are positive
IndoorDistanceM(summary_distance, df, idx) ==
    LET derived_distance == IndoorDerivedDistance(df, Len(df))
    IN  IF summary_distance > 0 /\ derived_distance > 0
        THEN Metres(IndoorDerivedDistance(df, idx) * summary_distance, derived_distance)
        ELSE Metres(IndoorDerivedDistance(df, idx), 10)

IndoorRecord(row, distance) ==
    [Message("record", row.TIMESTAMP * 1000) EXCEPT
        !.heart_rate = {row.HEART_RATE},
        !.speed = {SafeSpeed(IndoorSpeedMs(row.SPEED))},
        !.distance = {distance}]

analyze_indoor_cycling(w) ==
    LET df_data == IndoorHeartData(w.samples)
        start_timestamp == w.START_TIMESTAMP
        end_timestamp == w.END_TIMESTAMP
        heart == Column(df_data, "HEART_RATE")
    IN  IF ~w.data \/ ~w.summary THEN Raised("FileNotFoundError")
        ELSE IF ~w.summary_has_id THEN Raised("ValueError")
        ELSE IF ~w.heart_rate_column \/ ~w.speed_column THEN Raised("ValueError")
        ELSE IF df_data = << >> THEN Raised("ValueError")
        ELSE Returned(
                <<FileIdMessage(start_timestamp),
                  [SessionMessage(end_timestamp * 1000, IntMean(heart), MaxSeq(heart))
                     EXCEPT !.total_distance = {IndoorTotalDistance(w.DISTANCE, df_data)}]>>
                \o [i \in 1..Len(df_data) |->
                        IndoorRecord(df_data[i], IndoorDistanceM(w.DISTANCE, df_data, i))]
                \o <<ActivityMessage(end_timestamp * 1000)>>)

\* ---- analyze_strength.py ----

\* lines 45-48
StrengthHeartData(samples) == CyclingHeartData(samples)

StrengthRecord(row) ==
    [Message("record", row.TIMESTAMP * 1000) EXCEPT !.heart_rate = {row.HEART_RATE}]

analyze_strength(w) ==
    LET df_data == StrengthHeartData(w.samples)
        start_timestamp == w.START_TIMESTAMP
        end_timestamp == w.END_TIMESTAMP
        heart == Column(df_data, "HEART_RATE")
        avg_heart_rate == IF df_data # << >> THEN IntMean(heart) ELSE 0
        max_heart_rate == IF df_data # << >> THEN MaxSeq(heart) ELSE 0
    IN  IF ~w.data \/ ~w.summary THEN Raised("FileNotFoundError")
        ELSE IF ~w.summary_has_id THEN Raised("ValueError")
        ELSE IF ~w.heart_rate_column THEN Raised("KeyError")
        ELSE Returned(
                <<FileIdMessage(start_timestamp),
                  SessionMessage(end_timestamp * 1000, avg_heart_rate, max_heart_rate)>>
                \o [i \in 1..Len(df_data) |-> StrengthRecord(df_data[i])]
                \o <<ActivityMessage(end_timestamp * 1000)>>)

\* ---- analyze_swimming.py ----

get_summary_total_time_seconds(w) ==
    IF ~w.summary \/ ~w.summary_has_id THEN NoDuration
    ELSE (w.END_TIMESTAMP - w.START_TIMESTAMP) * U

\* line 275
SwimHeartData(samples) ==
    [i \in 1..Len(samples) |-> [samples[i] EXCEPT !.HEART_RATE = HeartRateAbs(@)]]

\* int(t * 1000) of the time start + cumulative, cumulative in time units
SwimMillis(start_timestamp, cumulative) ==
    ((start_timestamp * U + cumulative) * 1000) \div U

\* mutant: the clock advances over the swum lengths only
SegmentStartSkipsRest(df, idx) ==
    SumSeq(Column(ActiveSegments(SubSeq(df, 1, idx - 1)), "TIME"))

\* lines 280-290: cumulative TIME before row idx
SegmentStart(df, idx) == SumSeq(SubSeq(Column(df, "TIME"), 1, idx - 1))
SegmentEnd(df, idx) == SegmentStart(df, idx) + df[idx].TIME

\* lines 284-290: df_segment_data with START_TIMESTAMP and END_TIMESTAMP,
\* both in time units since the epoch
SegmentTimestamps(df, start_timestamp) ==
    [idx \in 1..Len(df) |->
        [SEGMENT_INDEX |-> df[idx].SEGMENT_INDEX, TIME |-> df[idx].TIME,
         DISTANCE |-> df[idx].DISTANCE, STROKES |-> df[idx].STROKES,
         SWIM_TYPE |-> df[idx].SWIM_TYPE,
         START_TIMESTAMP |-> start_timestamp * U + SegmentStart(df, idx),
         END_TIMESTAMP |-> start_timestamp * U + SegmentEnd(df, idx)]]

\* mutant: a sample on the segment's end belongs to the next segment only
InSegmentHalfOpen(timestamp, segment) ==
    /\ timestamp * U >= segment.START_TIMESTAMP
    /\ timestamp * U < segment.END_TIMESTAMP

\* lines 357-360: the sample lies in the segment
InSegment(timestamp, segment) ==
    /\ timestamp * U >= segment.START_TIMESTAMP
    /\ timestamp * U <= segment.END_TIMESTAMP

\* lines 352-373: lap_hr_data
LapHrData(df_heart_data, segments, avg_heart_rate, max_heart_rate) ==
    [segment_idx \in 1..Len(segments) |->
        LET segment_hr ==
                Column(SelectSeq(df_heart_data,
                                 LAMBDA r: InSegment(r.TIMESTAMP, segments[segment_idx])),
                       "HEART_RATE")
        IN  IF Len(segment_hr) > 0
            THEN [avg |-> IntMean(segment_hr), max |-> MaxSeq(segment_hr),
                  min |-> MinSeq(segment_hr)]
            ELSE [avg |-> avg_heart_rate, max |-> max_heart_rate, min |-> 0]]

\* lines 375-420: the lap and the length message of segment idx
LapAndLength(df, idx, start_timestamp) ==
    LET timestamp == SwimMillis(start_timestamp, SegmentEnd(df, idx))
    IN  <<[Message("lap", timestamp) EXCEPT !.message_index = {idx - 1}],
          [Message("length", timestamp) EXCEPT !.message_index = {idx - 1}]>>

\* mutant: every lap message first, then every length message
LapsThenLengths(df, idx, start_timestamp) ==
    [k \in 1..Len(df) |-> LapAndLength(df, k, start_timestamp)[1]]
    \o [k \in 1..Len(df) |-> LapAndLength(df, k, start_timestamp)[2]]

RECURSIVE LapsAndLengths(_, _, _)
LapsAndLengths(df, idx, start_timestamp) ==
    IF idx > Len(df) THEN << >>
    ELSE LapAndLength(df, idx, start_timestamp) \o LapsAndLengths(df, idx + 1, start_timestamp)

\* lines 426-433
SwimRecord(row) ==
    [Message("record", row.TIMESTAMP * 1000) EXCEPT
        !.heart_rate = {row.HEART_RATE},
        !.speed = IF row.SPEED > 0 THEN {Speed(row.SPEED, 10)} ELSE {}]

analyze_swimming(w) ==
    LET df_heart_data == SwimHeartData(w.samples)
        repaired == RepairPipeline(w.segments, w.pool_length,
                                   get_summary_total_time_seconds(w)).df
        start_timestamp == MinSeq(Column(df_heart_data, "TIMESTAMP"))
        total_time == SumSeq(Column(repaired, "TIME"))
        heart == Column(df_heart_data, "HEART_RATE")
        in_range == SelectSeq(df_heart_data,
                        LAMBDA r: /\ r.TIMESTAMP >= start_timestamp
                                  /\ r.TIMESTAMP * U <= start_timestamp * U + total_time)
    IN  IF ~w.data \/ ~w.swim_segments THEN Raised("FileNotFoundError")
        ELSE IF ~w.heart_rate_column \/ ~w.speed_column THEN Raised("KeyError")
        ELSE IF df_heart_data = << >> THEN Raised("ValueError")
        ELSE [Returned(
                <<FileIdMessage(start_timestamp),
                  SessionMessage(SwimMillis(start_timestamp, total_time),
                                 IntMean(heart), MaxSeq(heart))>>
                \o LapsAndLengths(repaired, 1, start_timestamp)
                \o [i \in 1..Len(in_range) |-> SwimRecord(in_range[i])]
                \o <<ActivityMessage(SwimMillis(start_timestamp, total_time))>>)
              EXCEPT !.segments = SegmentTimestamps(repaired, start_timestamp),
                     !.lap_hr_data =
                        LapHrData(df_heart_data,
                                  SegmentTimestamps(repaired, start_timestamp),
                                  IntMean(heart), MaxSeq(heart))]

\* mutant: the output file is opened before the input is validated
WritesOutputFirst(result) == TRUE

\* fit_file.to_file is the last statement that can fail or has an effect:
\* the file is written exactly when nothing was raised before it
WritesOutput(result) == ~result.raised

-----------------------------------------------------------------------------
(* One analyzer run on one workout folder (SpecAnalyze) *)

Analyzers == {"cycling", "indoor_cycling", "strength", "swimming"}

SeqsUpTo(S, n) == UNION {[1..k -> S] : k \in 0..n}

\* raw (HEART_RATE, SPEED in dm/s) readings
SampleReadings == {<<0 - 255, 20>>, <<0 - 1, 700>>, <<0, 0 - 10>>, <<70, 20>>}
SampleTimes == {103, 110}
SampleRows ==
    {[TIMESTAMP |-> t, HEART_RATE |-> r[1], SPEED |-> r[2]] :
        t \in SampleTimes, r \in SampleReadings}
SampleTables == SeqsUpTo(SampleRows, MaxSamples)

\* trkpt elements: position along a meridian in metres; ok = has lat, lon and time
TrackPoints ==
    {[timestamp |-> t, pos |-> x, ok |-> TRUE] : t \in {100, 101}, x \in {0, 1000}}
    \cup {[timestamp |-> 100, pos |-> 0, ok |-> FALSE]}
Tracks == SeqsUpTo(TrackPoints, MaxTrack)

TableOf(kinds) ==
    [i \in 1..Len(kinds) |-> IF kinds[i] = "plain" THEN PlainRow(i) ELSE OddRow(kinds[i], i)]

\* samples at the start of the workout and 28 s later, where its first
\* length ends
BoundarySampleTables ==
    {<<[TIMESTAMP |-> 103, HEART_RATE |-> 70, SPEED |-> 20],
       [TIMESTAMP |-> 131, HEART_RATE |-> r[1], SPEED |-> r[2]]>> : r \in SampleReadings}

SwimTables ==
    {TableOf(<<"rest">>), TableOf(<<"plain">>), TableOf(<<"plain", "rest", "plain">>),
     TableOf(<<"mid", "plain", "plain", "plain">>)}

\* a folder holding every file, with one good sample, one fix and one length
GoodWorkout ==
    [data |-> TRUE, summary |-> TRUE, gpx |-> TRUE, swim_segments |-> TRUE,
     summary_has_id |-> TRUE, heart_rate_column |-> TRUE, speed_column |-> TRUE,
     START_TIMESTAMP |-> 100, END_TIMESTAMP |-> 110, DISTANCE |-> 0, pool_length |-> 25,
     samples |-> <<[TIMESTAMP |-> 103, HEART_RATE |-> 70, SPEED |-> 20]>>,
     track |-> <<[timestamp |-> 100, pos |-> 0, ok |-> TRUE]>>,
     segments |-> TableOf(<<"plain">>)]

\* DISTANCE of the summary row in metres, 0 when absent
SummaryDistances == {0, 50}

Defects == {"data", "summary", "gpx", "swim_segments", "summary_has_id",
            "heart_rate_column", "speed_column"}

DefectiveWorkouts == {[GoodWorkout EXCEPT ![f] = FALSE] : f \in Defects}

Workouts(a) ==
    DefectiveWorkouts \cup
    (IF a = "cycling"
     THEN {[GoodWorkout EXCEPT !.samples = s, !.track = t] :
                s \in SampleTables, t \in Tracks}
     ELSE IF a = "swimming"
     THEN {[GoodWorkout EXCEPT !.samples = s, !.segments = g] :
                s \in SampleTables \cup BoundarySampleTables, g \in SwimTables}
     ELSE IF a = "indoor_cycling"
     THEN {[GoodWorkout EXCEPT !.samples = s, !.DISTANCE = d] :
                s \in SampleTables, d \in SummaryDistances}
     ELSE {[GoodWorkout EXCEPT !.samples = s] : s \in SampleTables})

InitAnalyze ==
    /\ machine = "analyze"
    /\ analyzer \in Analyzers
    /\ workout \in Workouts(analyzer)
    /\ outcome = "pending"
    /\ error = ""
    /\ messages = << >>
    /\ output_file \in {"absent", "old"}
    /\ lap_hr_data = << >>
    /\ IdleRepair
    /\ IdleBatch
    /\ IdleUpload

\* analyze_workout returns or raises; the FIT file is written on return
Finish(result) ==
    /\ outcome' = IF result.raised THEN "raised" ELSE "ok"
    /\ error' = result.error
    /\ messages' = result.messages
    /\ output_file' = IF WritesOutput(result) THEN "written" ELSE output_file
    /\ df_segment_data' = result.segments
    /\ lap_hr_data' = result.lap_hr_data
    /\ UNCHANGED <<machine, uploadVars, analyzer, workout, batchVars, df_input, df_before, pool_length,
                   workout_total_time_seconds, call, fixed_collapsed_start,
                   is_sprint_session>>

AnalyzeCycling ==
    /\ machine = "analyze" /\ analyzer = "cycling" /\ outcome = "pending"
    /\ Finish(analyze_cycling(workout))

AnalyzeIndoorCycling ==
    /\ machine = "analyze" /\ analyzer = "indoor_cycling" /\ outcome = "pending"
    /\ Finish(analyze_indoor_cycling(workout))

AnalyzeStrength ==
    /\ machine = "analyze" /\ analyzer = "strength" /\ outcome = "pending"
    /\ Finish(analyze_strength(workout))

AnalyzeSwimming ==
    /\ machine = "analyze" /\ analyzer = "swimming" /\ outcome = "pending"
    /\ Finish(analyze_swimming(workout))

NextAnalyze == AnalyzeCycling \/ AnalyzeIndoorCycling \/ AnalyzeStrength \/ AnalyzeSwimming

SpecAnalyze == InitAnalyze /\ [][NextAnalyze]_vars

-----------------------------------------------------------------------------
(* Claims about one analyzer run (SpecAnalyze) *)

Records == SelectSeq(messages, LAMBDA m: m.type = "record")
Session == CHOOSE m \in {messages[i] : i \in 1..Len(messages)} : m.type = "session"

\* the heart rates that are valid by the documented rule: raw negative values
\* get 255 added, and what is then <= 0 is discarded
ValidHeartRates(samples) ==
    SelectSeq([i \in 1..Len(samples) |-> HeartRatePlus255(samples[i].HEART_RATE)],
              LAMBDA h: h > 0)

\* C7: in every analyzer a raw HEART_RATE h < 0 is corrected to h + 255, and
\* a sample whose corrected value is <= 0 is discarded entirely: it produces
\* no record message and does not enter the average / maximum heart rate.
C7_HeartRateCorrected ==
    outcome = "ok" =>
        LET valid == ValidHeartRates(workout.samples)
        IN  /\ \A i \in 1..Len(Records) :
                Records[i].heart_rate \subseteq {valid[j] : j \in 1..Len(valid)}
            /\ analyzer # "cycling" => Len(Records) <= Len(valid)
            /\ valid # << >> =>
                /\ Session.avg_heart_rate = {IntMean(valid)}
                /\ Session.max_heart_rate = {MaxSeq(valid)}

\* C8: in every analyzer every speed written to a record message lies in
\* [0, 65.535] m/s.
C8_RecordSpeedInRange ==
    outcome = "ok" =>
        \A i \in 1..Len(Records) : \A v \in Records[i].speed :
            SpeedLeq(ZeroSpeed, v) /\ SpeedLeq(v, MAX_FIT_SPEED_MS)

\* the malformed-data cases: no valid track point (cycling), no valid
\* heart-rate sample (indoor cycling; taken here as no sample with a raw
\* HEART_RATE other than 0, which is invalid under the +255 rule and under
\* abs() alike), no segment with DISTANCE > 0 (swimming)
Malformed ==
    \/ analyzer = "cycling" /\ SelectSeq(workout.track, LAMBDA pt: pt.ok) = << >>
    \/ analyzer = "indoor_cycling"
        /\ SelectSeq(workout.samples, LAMBDA r: r.HEART_RATE # 0) = << >>
    \/ analyzer = "swimming" /\ ActiveSegments(workout.segments) = << >>

\* C9: a workout with malformed data is aborted with an error and produces
\* no output file.
C9_MalformedAborted ==
    (outcome # "pending" /\ Malformed) => (outcome = "raised" /\ output_file # "written")

WorkoutStart == MinSeq(Column(workout.samples, "TIMESTAMP")) * U

\* C11: after timestamp derivation in the swimming analyzer the segments
\* partition [start, start + total_time) contiguously: the first segment starts
\* at the workout start, each END_TIMESTAMP is START_TIMESTAMP + TIME, each
\* START_TIMESTAMP is the END_TIMESTAMP of the segment before, and the last
\* END_TIMESTAMP is start plus the sum of all TIME values.
C11_SegmentsPartition ==
    (analyzer = "swimming" /\ outcome = "ok") =>
        LET df == df_segment_data
        IN  /\ df # << >> => df[1].START_TIMESTAMP = WorkoutStart
            /\ \A i \in 1..Len(df) : df[i].END_TIMESTAMP = df[i].START_TIMESTAMP + df[i].TIME
            /\ \A i \in 2..Len(df) : df[i].START_TIMESTAMP = df[i - 1].END_TIMESTAMP
            /\ df # << >> => df[Len(df)].END_TIMESTAMP = WorkoutStart + SumTime(df)

\* timestamps were derived for a table that holds a rest row between lengths
\* and for one whose first length was split in three
C11_Witness ==
    /\ analyzer = "swimming" /\ outcome = "ok"
    /\ \/ Len(df_segment_data) = 6 /\ Len(workout.segments) = 4
       \/ Len(df_segment_data) = 3 /\ df_segment_data[2].DISTANCE = 0

\* the track points the cycling analyzer works on, in time order
TrackOf(w) == parse_gpx_points(w.track)

\* the one value of an optional message field that is set
TheValue(field) == CHOOSE v \in field : TRUE

Apart(a, b) == IF a >= b THEN a - b ELSE b - a

\* C13: in the cycling analyzer a track point gets the heart rate of the
\* heart-rate sample nearest in time if and only if that sample lies within 5
\* seconds of the point (3 s away: attached, 10 s away: not attached);
\* otherwise its record message carries no heart_rate field at all (never 0).
C13_HeartRateWithinTolerance ==
    (analyzer = "cycling" /\ outcome = "ok") =>
        LET gpx == TrackOf(workout)
            data == CyclingHeartData(workout.samples)
            samples == 1..Len(data)
        IN  \A i \in 1..Len(Records) :
                LET t == gpx[i].timestamp
                    nearest == {j \in samples : \A k \in samples :
                                    Apart(data[j].TIMESTAMP, t) <= Apart(data[k].TIMESTAMP, t)}
                    within == {j \in nearest : Apart(data[j].TIMESTAMP, t) <= 5}
                IN  /\ 0 \notin Records[i].heart_rate
                    /\ within # {} =>
                            \E j \in within : Records[i].heart_rate = {data[j].HEART_RATE}
                    /\ within = {} => Records[i].heart_rate = {}

\* one fix with a sample 3 s after it and one 10 s after it: the nearer one
\* is attached; and a fix whose only sample is 10 s away, with no heart rate
C13_Witness ==
    /\ analyzer = "cycling" /\ outcome = "ok"
    /\ Len(Records) >= 1
    /\ TrackOf(workout)[1].timestamp = 100
    /\ \/ /\ Column(workout.samples, "TIMESTAMP") = <<110, 103>>
          /\ Records[1].heart_rate = {workout.samples[2].HEART_RATE}
          /\ workout.samples[2].HEART_RATE # workout.samples[1].HEART_RATE
       \/ /\ Column(CyclingHeartData(workout.samples), "TIMESTAMP") = <<110>>
          /\ Records[1].heart_rate = {}

\* messages before the body: file-id, device-info (cycling only), session
HeaderTypes ==
    IF analyzer = "cycling" THEN <<"file_id", "device_info", "session">>
    ELSE <<"file_id", "session">>

\* the messages between the session and the activity message
Body == SubSeq(messages, Len(HeaderTypes) + 1, Len(messages) - 1)

\* C14: every analyzer emits file-id, (device-info, cycling only), session,
\* then the per-type body, then exactly one activity message with
\* num_sessions = 1 as the last message; for swimming the body is, for each
\* segment k = 0, 1, 2, ... in list order, one lap message followed by one
\* length message both with message_index = k, and only then the records.
C14_MessageOrder ==
    outcome = "ok" =>
        LET n == Len(messages)
            laps == IF analyzer = "swimming" THEN Len(df_segment_data) ELSE 0
        IN  /\ n >= Len(HeaderTypes) + 1
            /\ \A i \in 1..Len(HeaderTypes) : messages[i].type = HeaderTypes[i]
            /\ messages[n].type = "activity"
            /\ messages[n].num_sessions = {1}
            /\ \A i \in 1..(n - 1) : messages[i].type # "activity"
            /\ Len(Body) >= 2 * laps
            /\ \A k \in 1..laps :
                /\ Body[2 * k - 1].type = "lap"
                /\ Body[2 * k - 1].message_index = {k - 1}
                /\ Body[2 * k].type = "length"
                /\ Body[2 * k].message_index = {k - 1}
            /\ \A i \in (2 * laps + 1)..Len(Body) : Body[i].type = "record"

\* a swim of three segments with two records, and a ride with two records
C14_Witness ==
    /\ outcome = "ok"
    /\ Len(Records) = 2
    /\ \/ analyzer = "swimming" /\ Len(df_segment_data) = 3
       \/ analyzer = "cycling"

LapsLengths == SelectSeq(messages, LAMBDA m: m.type \in {"lap", "length"})

NonDecreasing(msgs) ==
    \A i \in 1..(Len(msgs) - 1) : msgs[i].timestamp <= msgs[i + 1].timestamp

\* C15: in the message sequence of every analyzer the lap/length messages
\* have non-decreasing timestamps in emission order, and so have the record
\* messages, whatever the row order of the input sample and segment tables.
C15_SubsequencesMonotonic ==
    outcome = "ok" => (NonDecreasing(LapsLengths) /\ NonDecreasing(Records))

\* C16: leaving the lap/length messages aside, the timestamps of all other
\* messages an analyzer emits (file-id creation time, device-info, session,
\* records, activity) are non-decreasing in emission order.
C16_TimestampsNonDecreasing ==
    outcome = "ok" =>
        NonDecreasing(SelectSeq(messages, LAMBDA m: m.type \notin {"lap", "length"}))

FracEq(a, b) == a.n * b.d = b.n * a.d

\* C17: in the indoor cycling analyzer total_distance is the summary DISTANCE
\* when it is present and positive and the speed-integrated distance
\* otherwise; when both are positive the cumulative distance series is
\* multiplied by summary / derived, so the distance of the last record equals
\* total_distance, the first is 0, and the series stays non-decreasing.
C17_IndoorDistanceRescaled ==
    (analyzer = "indoor_cycling" /\ outcome = "ok") =>
        LET df == IndoorHeartData(workout.samples)
            n == Len(Records)
            dm == [i \in 1..n |-> IndoorDerivedDistance(df, i)]
            derived == [i \in 1..n |-> Metres(dm[i], 10)]
            distance == [i \in 1..n |-> TheValue(Records[i].distance)]
            total_distance == TheValue(Session.total_distance)
            summary == Metres(workout.DISTANCE, 1)
        IN  /\ n = Len(df) /\ n >= 1
            /\ workout.DISTANCE > 0 => FracEq(total_distance, summary)
            /\ workout.DISTANCE <= 0 => FracEq(total_distance, derived[n])
            /\ distance[1].n = 0
            /\ \A i \in 1..(n - 1) : SpeedLeq(distance[i], distance[i + 1])
            /\ (workout.DISTANCE > 0 /\ derived[n].n > 0) =>
                /\ FracEq(distance[n], total_distance)
                /\ \A i \in 1..n :
                    \* distance[i] = derived[i] * summary / derived[n]
                    distance[i].n * dm[n] = dm[i] * workout.DISTANCE * distance[i].d
            /\ workout.DISTANCE <= 0 => \A i \in 1..n : FracEq(distance[i], derived[i])

\* two samples 7 s apart at 2 m/s (14 m derived) with a summary distance of
\* 50 m: the last record carries 50 m
C17_Witness ==
    /\ analyzer = "indoor_cycling" /\ outcome = "ok"
    /\ workout.DISTANCE = 50
    /\ Len(Records) = 2
    /\ IndoorDerivedDistance(IndoorHeartData(workout.samples), 2) = 140
    /\ FracEq(TheValue(Records[2].distance), Metres(50, 1))

\* the samples of the swimming analyzer whose timestamp t satisfies
\* START_TIMESTAMP <= t <= END_TIMESTAMP of the segment
SamplesWithin(segment) ==
    {i \in 1..Len(workout.samples) :
        /\ segment.START_TIMESTAMP <= workout.samples[i].TIMESTAMP * U
        /\ workout.samples[i].TIMESTAMP * U <= segment.END_TIMESTAMP}

\* the heart rate of sample i as the swimming analyzer holds it
SwimRate(i) == SwimHeartData(workout.samples)[i].HEART_RATE

\* C27: in the swimming analyzer the heart-rate statistics of a segment are
\* the (integer part of the) mean, the max and the min over all samples whose
\* timestamp t satisfies START_TIMESTAMP <= t <= END_TIMESTAMP, both bounds
\* inclusive (so a sample exactly on a shared boundary counts for both
\* adjacent segments); when no sample is in range the segment gets the
\* workout-wide average and maximum and min = 0.
C27_SegmentHeartRateStatistics ==
    (analyzer = "swimming" /\ outcome = "ok") =>
        /\ Len(lap_hr_data) = Len(df_segment_data)
        /\ \A k \in 1..Len(df_segment_data) :
            LET within == SamplesWithin(df_segment_data[k])
                n == Cardinality(within)
                total == SumSeq([i \in 1..Len(workout.samples) |->
                                    IF i \in within THEN SwimRate(i) ELSE 0])
                stats == lap_hr_data[k]
            IN  IF within # {}
                THEN /\ stats.avg * n <= total /\ total < (stats.avg + 1) * n
                     /\ \E i \in within : stats.max = SwimRate(i)
                     /\ \A i \in within : SwimRate(i) <= stats.max
                     /\ \E i \in within : stats.min = SwimRate(i)
                     /\ \A i \in within : stats.min <= SwimRate(i)
                ELSE /\ stats.avg = TheValue(Session.avg_heart_rate)
                     /\ stats.max = TheValue(Session.max_heart_rate)
                     /\ stats.min = 0

\* a length, a rest and a length with samples at the start and on the
\* boundary between the first length and the rest: the boundary sample counts
\* for both, and the last length holds no sample
C27_Witness ==
    /\ analyzer = "swimming" /\ outcome = "ok"
    /\ Column(workout.samples, "TIMESTAMP") = <<103, 131>>
    /\ Len(df_segment_data) = 3
    /\ df_segment_data[1].END_TIMESTAMP = 131 * U
    /\ df_segment_data[2].START_TIMESTAMP = 131 * U
    /\ lap_hr_data = <<[avg |-> 162, max |-> 255, min |-> 70],
                       [avg |-> 255, max |-> 255, min |-> 255],
                       [avg |-> 162, max |-> 255, min |-> 0]>>

-----------------------------------------------------------------------------
(* The batch loop of analyze.py main (SpecBatch) *)

\* strava_activity_id 0 and strava_activity_url << >> stand for NULL
NoRow == [present |-> FALSE, workout_type |-> "", fit_file_path |-> << >>,
          strava_synced |-> 0, strava_activity_id |-> 0, strava_activity_url |-> << >>,
          upserts |-> 0]

\* detect_workout_type, "none" for None
detect_workout_type(w) ==
    IF w.swim_segments THEN "swimming"
    ELSE IF w.gpx THEN "cycling"
    ELSE IF w.summary /\ w.data THEN "strength"
    ELSE "none"

\* what a workout folder can hold
FolderContents ==
    {[GoodWorkout EXCEPT !.gpx = FALSE],                                  \* swim
     [GoodWorkout EXCEPT !.swim_segments = FALSE],                        \* ride
     [GoodWorkout EXCEPT !.swim_segments = FALSE, !.gpx = FALSE],         \* strength
     [GoodWorkout EXCEPT !.gpx = FALSE, !.data = FALSE],                  \* swim, no samples file
     [GoodWorkout EXCEPT !.swim_segments = FALSE, !.track = << >>],       \* ride, GPX without points
     [GoodWorkout EXCEPT !.swim_segments = FALSE, !.gpx = FALSE,
                         !.summary = FALSE]}                              \* nothing recognizable

Folders == {[numeric |-> b, content |-> c] : b \in BOOLEAN, c \in FolderContents}

\* workout_dirs after sort(key=workout_sort_key) and reverse(): the folders
\* with a non-numeric name first, then the numeric ones by descending id
FolderLists ==
    {l \in SeqsUpTo(Folders, MaxDirs) :
        \A i, j \in 1..Len(l) : (i < j /\ l[i].numeric) => l[j].numeric}

\* int(workout_dir.name) of the folder at position i: ids descend
WorkoutId(i) == MaxDirs + 1 - i

FitPath(workout_id, workout_type) == <<workout_id, workout_type>>

should_skip_workout(rows, files, workout_id) ==
    /\ rows[workout_id].present
    /\ rows[workout_id].fit_file_path # << >>
    /\ rows[workout_id].fit_file_path \in files

\* mutant: INSERT OR REPLACE, the sync columns fall back to their defaults
upsert_workout_row_replacing(rows, workout_id, workout_type, fit_path) ==
    [rows EXCEPT ![workout_id] =
        [present |-> TRUE, workout_type |-> workout_type, fit_file_path |-> fit_path,
         strava_synced |-> 0, strava_activity_id |-> 0, strava_activity_url |-> << >>,
         upserts |-> Min(@.upserts + 1, MaxRuns + 1)]]

\* INSERT ... ON CONFLICT(workout_id) DO UPDATE: the sync columns are kept
upsert_workout_row(rows, workout_id, workout_type, fit_path) ==
    [rows EXCEPT ![workout_id] =
        [present |-> TRUE, workout_type |-> workout_type, fit_file_path |-> fit_path,
         strava_synced |-> @.strava_synced, strava_activity_id |-> @.strava_activity_id,
         strava_activity_url |-> @.strava_activity_url,
         upserts |-> Min(@.upserts + 1, MaxRuns + 1)]]

\* the analyzer main dispatches to, pool_length = 25 for swimming
Dispatch(workout_type, w) ==
    IF workout_type = "swimming" THEN analyze_swimming(w)
    ELSE IF workout_type = "cycling" THEN analyze_cycling(w)
    ELSE analyze_strength(w)

InitBatch ==
    /\ machine = "batch"
    /\ workout_dirs \in FolderLists
    /\ cursor = 1
    /\ force \in BOOLEAN
    /\ analyzed = {}
    /\ batch_state = "running"
    /\ db = [id \in 1..(MaxDirs + 1) |-> NoRow]
    /\ fit_files = {}
    /\ runs = 1
    /\ pending = << >>
    /\ uploads = [id \in 1..(MaxDirs + 1) |-> 0]
    /\ IdleRepair
    /\ IdleAnalyze
    /\ IdleUpload

Skipped(i) ==
    LET d == workout_dirs[i]
    IN  \/ ~d.numeric
        \/ ~force /\ should_skip_workout(db, fit_files, WorkoutId(i))
        \/ detect_workout_type(d.content) = "none"

\* a loop iteration that ends in continue without running an analyzer
SkipFolder ==
    /\ machine = "batch" /\ batch_state = "running"
    /\ cursor <= Len(workout_dirs)
    /\ Skipped(cursor)
    /\ cursor' = cursor + 1
    /\ UNCHANGED <<machine, uploadVars, workout_dirs, force, analyzed, batch_state, db,
                   fit_files, runs, pending, uploads, repairVars, analyzeVars>>

\* a loop iteration whose analyzer returns: FIT file written, row upserted
AnalyzeFolder ==
    /\ machine = "batch" /\ batch_state = "running"
    /\ cursor <= Len(workout_dirs)
    /\ ~Skipped(cursor)
    /\ LET workout_type == detect_workout_type(workout_dirs[cursor].content)
           result == Dispatch(workout_type, workout_dirs[cursor].content)
           fit_path == FitPath(WorkoutId(cursor), workout_type)
       IN  /\ ~result.raised
           /\ fit_files' = fit_files \cup {fit_path}
           /\ db' = upsert_workout_row(db, WorkoutId(cursor), workout_type, fit_path)
    /\ analyzed' = analyzed \cup {cursor}
    /\ cursor' = cursor + 1
    /\ UNCHANGED <<machine, uploadVars, workout_dirs, force, batch_state, runs, pending,
                   uploads, repairVars, analyzeVars>>

\* a loop iteration whose analyzer raises: nothing in main catches it, the
\* exception leaves the for loop and main
AnalyzerRaises ==
    /\ machine = "batch" /\ batch_state = "running"
    /\ cursor <= Len(workout_dirs)
    /\ ~Skipped(cursor)
    /\ Dispatch(detect_workout_type(workout_dirs[cursor].content),
                workout_dirs[cursor].content).raised
    /\ batch_state' = "crashed"
    /\ UNCHANGED <<machine, uploadVars, workout_dirs, cursor, force, analyzed, db, fit_files,
                   runs, pending, uploads, repairVars, analyzeVars>>

\* the for loop is exhausted: connection.close()
FinishBatch ==
    /\ machine = "batch" /\ batch_state = "running"
    /\ cursor > Len(workout_dirs)
    /\ batch_state' = "finished"
    /\ UNCHANGED <<machine, uploadVars, workout_dirs, cursor, force, analyzed, db, fit_files,
                   runs, pending, uploads, repairVars, analyzeVars>>

\* main is started again on the same folders, database and fit_location
StartRun ==
    /\ machine = "batch" /\ batch_state \in {"finished", "crashed"}
    /\ runs < MaxRuns
    /\ runs' = runs + 1
    /\ force' \in BOOLEAN
    /\ cursor' = 1
    /\ analyzed' = {}
    /\ batch_state' = "running"
    /\ UNCHANGED <<machine, uploadVars, workout_dirs, db, fit_files, pending, uploads,
                   repairVars, analyzeVars>>

NextBatch == SkipFolder \/ AnalyzeFolder \/ AnalyzerRaises \/ FinishBatch \/ StartRun

SpecBatch == InitBatch /\ [][NextBatch]_vars

-----------------------------------------------------------------------------
(* Runs of analyze.main and of upload_pending_from_db on one sync database *)
(* (SpecSync)                                                              *)

RECURSIVE Ascending(_)
Ascending(ids) ==
    IF ids = {} THEN << >>
    ELSE LET least == CHOOSE i \in ids : \A j \in ids : i <= j
         IN  <<least>> \o Ascending(ids \ {least})

\* SELECT ... WHERE strava_synced = 0 ORDER BY workout_id ASC, the rows whose
\* fit_file_path exists
fetch_unsynced_workouts(rows, files) ==
    Ascending({id \in DOMAIN rows :
                /\ rows[id].present
                /\ rows[id].strava_synced = 0
                /\ rows[id].fit_file_path # << >>
                /\ rows[id].fit_file_path \in files})

ActivityUrl(activity_id) == <<"https://www.strava.com/activities/", activity_id>>

\* UPDATE workouts SET strava_synced = 1, ... WHERE workout_id = ?
update_sync_status(rows, workout_id, activity_id) ==
    IF workout_id \in DOMAIN rows /\ rows[workout_id].present
    THEN [rows EXCEPT ![workout_id].strava_synced = 1,
                      ![workout_id].strava_activity_id = activity_id,
                      ![workout_id].strava_activity_url = ActivityUrl(activity_id)]
    ELSE rows

\* the activity id Strava gives to an accepted upload: a new one each time
NewActivityId(workout_id, earlier_uploads) == 100 + 10 * workout_id + earlier_uploads

\* workout folders of the sync runs: a swim, a strength workout, a ride whose
\* GPX holds no point (its analyzer raises)
SyncFolders ==
    {[numeric |-> TRUE, content |-> c] :
        c \in {[GoodWorkout EXCEPT !.gpx = FALSE],
                [GoodWorkout EXCEPT !.swim_segments = FALSE, !.gpx = FALSE],
                [GoodWorkout EXCEPT !.swim_segments = FALSE, !.track = << >>]}}

SyncFolderLists == SeqsUpTo(SyncFolders, MaxDirs)

\* the row an earlier run of main left for a folder it analyzed, and the same
\* row after an earlier upload
AnalyzedRow(workout_id, workout_type) ==
    upsert_workout_row([id \in {workout_id} |-> NoRow], workout_id, workout_type,
                       FitPath(workout_id, workout_type))[workout_id]

SyncedRow(workout_id, workout_type) ==
    update_sync_status([id \in {workout_id} |-> AnalyzedRow(workout_id, workout_type)],
                       workout_id, 50 + workout_id)[workout_id]

\* the row earlier runs have left for the folder at position i: none, the row
\* of an analyzed workout, or that of an analyzed and uploaded one
EarlierRuns == {"none", "analyzed", "uploaded"}

EarlierRow(dirs, i, earlier) ==
    LET workout_type == detect_workout_type(dirs[i].content)
    IN  IF Dispatch(workout_type, dirs[i].content).raised \/ earlier = "none" THEN NoRow
        ELSE IF earlier = "analyzed" THEN AnalyzedRow(WorkoutId(i), workout_type)
        ELSE SyncedRow(WorkoutId(i), workout_type)

SyncTables(dirs) ==
    {[id \in 1..(MaxDirs + 1) |->
        IF MaxDirs + 1 - id \in 1..Len(dirs)
        THEN EarlierRow(dirs, MaxDirs + 1 - id, earlier[MaxDirs + 1 - id])
        ELSE NoRow] : earlier \in [1..Len(dirs) -> EarlierRuns]}

InitSync ==
    /\ machine = "batch"
    /\ workout_dirs \in SyncFolderLists
    /\ cursor = 1
    /\ force \in BOOLEAN
    /\ analyzed = {}
    /\ batch_state = "running"
    /\ db \in SyncTables(workout_dirs)
    /\ fit_files = {db[id].fit_file_path : id \in {j \in 1..(MaxDirs + 1) : db[j].present}}
    /\ runs = 1
    /\ pending = << >>
    /\ uploads = [id \in 1..(MaxDirs + 1) |-> 0]
    /\ IdleRepair
    /\ IdleAnalyze
    /\ IdleUpload

\* upload_pending_from_db is started: the unsynced rows are fetched
StartUploadPending ==
    /\ machine = "batch" /\ batch_state \in {"finished", "crashed"}
    /\ runs < MaxRuns
    /\ runs' = runs + 1
    /\ pending' = fetch_unsynced_workouts(db, fit_files)
    /\ batch_state' = "uploading"
    /\ UNCHANGED <<machine, uploadVars, workout_dirs, cursor, force, analyzed, db, fit_files,
                   uploads, repairVars, analyzeVars>>

\* one round of its loop: upload_to_strava returns a result (and has called
\* update_sync_status) or None
UploadPendingRow ==
    /\ machine = "batch" /\ batch_state = "uploading"
    /\ pending # << >>
    /\ LET workout_id == Head(pending)
       IN  /\ uploads' = [uploads EXCEPT ![workout_id] = @ + 1]
           /\ \E accepted \in BOOLEAN :
                db' = IF accepted
                      THEN update_sync_status(db, workout_id,
                                              NewActivityId(workout_id, uploads[workout_id]))
                      ELSE db
    /\ pending' = Tail(pending)
    /\ UNCHANGED <<machine, uploadVars, workout_dirs, cursor, force, analyzed, batch_state,
                   fit_files, runs, repairVars, analyzeVars>>

\* the loop is exhausted: the summary is printed
FinishUploadPending ==
    /\ machine = "batch" /\ batch_state = "uploading"
    /\ pending = << >>
    /\ batch_state' = "finished"
    /\ UNCHANGED <<machine, uploadVars, workout_dirs, cursor, force, analyzed, db, fit_files,
                   runs, pending, uploads, repairVars, analyzeVars>>

NextSync ==
    \/ SkipFolder \/ AnalyzeFolder \/ AnalyzerRaises \/ FinishBatch \/ StartRun
    \/ StartUploadPending \/ UploadPendingRow \/ FinishUploadPending

SpecSync == InitSync /\ [][NextSync]_vars

-----------------------------------------------------------------------------
(* Claims about the sync database (SpecSync) *)

WorkoutIds == 1..(MaxDirs + 1)

\* a step leaves the synced row of workout id as it is and uploads nothing for it
StaysSynced(id) ==
    db[id].strava_synced = 1 =>
        /\ db'[id].strava_synced = 1
        /\ db'[id].strava_activity_id = db[id].strava_activity_id
        /\ db'[id].strava_activity_url = db[id].strava_activity_url
        /\ uploads'[id] = uploads[id]

\* the rows upload_pending_from_db still has to upload are unsynced ones
PendingUnsynced ==
    batch_state = "uploading" =>
        \A k \in 1..Len(pending) : db[pending[k]].strava_synced = 0

\* C28: once a workout row has strava_synced = 1, no later sequence of analyze
\* runs (with or without --force, which upsert the row) and
\* upload_pending_from_db runs uploads that workout again: the upsert leaves
\* strava_synced, strava_activity_id and strava_activity_url unchanged, and
\* upload_pending_from_db only uploads rows with strava_synced = 0.
C28_SyncedNeverUploadedAgain ==
    []PendingUnsynced /\ [][\A id \in WorkoutIds : StaysSynced(id)]_vars

\* a workout uploaded earlier was analyzed again with --force, and the
\* uploader run after that uploaded another workout and not this one
C28_Witness ==
    /\ batch_state = "uploading"
    /\ \E id, other \in WorkoutIds :
        /\ db[id].strava_synced = 1
        /\ db[id].upserts >= 2
        /\ db[id].strava_activity_id = 50 + id
        /\ uploads[id] = 0
        /\ uploads[other] = 1
        /\ db[other].strava_synced = 1

-----------------------------------------------------------------------------
(* Claims about the batch loop (SpecBatch) *)

\* the folder at position i is one this run has to analyze: numeric name,
\* recognizable files, not already tracked with its FIT file (unless --force),
\* and its analyzer returns
Analyzable(i) ==
    /\ ~Skipped(i)
    /\ ~Dispatch(detect_workout_type(workout_dirs[i].content), workout_dirs[i].content).raised

\* C1: when the analyzer of one workout folder raises, that workout is
\* skipped and every later folder of the batch is still analyzed: when a run
\* of main has ended, every folder it had to analyze has been analyzed.
C1_FailureNeverEndsBatch ==
    batch_state # "running" =>
        \A i \in 1..Len(workout_dirs) : Analyzable(i) => i \in analyzed

\* the folder at position i is a workout main can analyze: numeric name, and
\* detect_workout_type finds a type
Recognizable(i) ==
    /\ workout_dirs[i].numeric
    /\ detect_workout_type(workout_dirs[i].content) # "none"

\* the loop is at a numeric folder that has a row whose FIT file exists, in a
\* run without --force
AtProcessedFolder ==
    /\ machine = "batch" /\ batch_state = "running"
    /\ cursor <= Len(workout_dirs)
    /\ workout_dirs[cursor].numeric
    /\ ~force
    /\ should_skip_workout(db, fit_files, WorkoutId(cursor))

\* ... and the step from there runs no analyzer and leaves the database alone
SkippedUntouched ==
    AtProcessedFolder => (analyzed' = analyzed /\ db' = db /\ fit_files' = fit_files)

\* a run with --force that has ended has analyzed every recognizable folder
\* whose analyzer returns, and upserted its row
ForcedAllAnalyzed ==
    (machine = "batch" /\ batch_state \in {"finished", "crashed"} /\ force) =>
        \A i \in 1..Len(workout_dirs) :
            (Recognizable(i) /\ Analyzable(i)) =>
                /\ i \in analyzed
                /\ db[WorkoutId(i)].present
                /\ db[WorkoutId(i)].fit_file_path \in fit_files

\* a folder without a numeric name is not analyzed and gets no row
NonNumericNeverAnalyzed ==
    machine = "batch" =>
        \A i \in 1..Len(workout_dirs) :
            ~workout_dirs[i].numeric =>
                (i \notin analyzed /\ ~db[WorkoutId(i)].present)

\* C30: in the batch loop of analyze.main without --force, a workout whose
\* sync-DB row has a fit_file_path that exists on disk is skipped: its analyzer
\* is not run and its DB row is not modified; with --force every recognizable
\* workout is re-analyzed and its row upserted; a folder whose name is not a
\* numeric workout id is never analyzed in either mode.
C30_SkipAndForce ==
    /\ [][SkippedUntouched]_vars
    /\ []ForcedAllAnalyzed
    /\ []NonNumericNeverAnalyzed

-----------------------------------------------------------------------------
(* One call of upload_to_strava: workload_uploader.py (SpecUpload) *)

max_attempts == 30

\* what a status request can come back with: a failed request
\* (RequestException), or a JSON body with or without activity_id and error
StatusResponses ==
    {[ok |-> TRUE, activity_id |-> a, error |-> e] : a, e \in BOOLEAN}
    \cup {[ok |-> FALSE, activity_id |-> FALSE, error |-> FALSE]}

\* why the call returns None before any poll: no access token, no file, the
\* upload request failed, the upload response has no id
Rejections == {"no_token", "no_file", "post_failed", "no_upload_id"}

\* mutant: one more round of the loop
WithinAttemptsInclusive(n) == n <= max_attempts

\* while attempt < max_attempts
WithinAttempts(n) == n < max_attempts

\* the FIT files a call can be given: the files analyze.main wrote for the
\* workouts 1 and 2, named <workout_id>_<type>.fit, and a file whose name does
\* not start with a number
UploadFiles == {FitPath(1, "swimming"), FitPath(2, "cycling"), <<"morning_ride">>}

\* the stem's part before the first '_' as a number, 0 for None
parse_workout_id_from_path(path) == IF Len(path) = 2 THEN path[1] ELSE 0

\* the sync database a call finds: none (SYNC_DB_LOCATION is not set, << >>),
\* or one in which workout 1 has no row, an analyzed row or an uploaded row
UploadTables ==
    {<< >>}
    \cup {[id \in 1..(MaxDirs + 1) |->
                IF id = 1 THEN first
                ELSE IF id = 2 THEN AnalyzedRow(2, "cycling")
                ELSE NoRow] :
            first \in {NoRow, AnalyzedRow(1, "swimming"), SyncedRow(1, "swimming")}}

\* mutant: the activity id is looked at before the error
PollOutcomeIdFirst(response) ==
    IF ~response.ok THEN "None"
    ELSE IF response.activity_id THEN "result"
    ELSE IF response.error THEN "None"
    ELSE "continue"

\* lines 352-381: what one status response makes the loop do
PollOutcome(response) ==
    IF ~response.ok THEN "None"
    ELSE IF response.error THEN "None"
    ELSE IF response.activity_id THEN "result"
    ELSE "continue"

InitUpload ==
    /\ machine = "upload"
    /\ upload_state = "ready"
    /\ attempt = 0
    /\ slept = 0
    /\ status_data = NoResponse
    /\ upload_result = "pending"
    /\ strava_synced = FALSE
    /\ file_path \in UploadFiles
    /\ db \in UploadTables
    /\ workout_dirs = << >>
    /\ cursor = 0
    /\ force = FALSE
    /\ analyzed = {}
    /\ batch_state = "running"
    /\ fit_files = {}
    /\ runs = 0
    /\ pending = << >>
    /\ uploads = << >>
    /\ IdleRepair
    /\ IdleAnalyze

\* lines 280-338: return None before the upload is accepted
UploadRejected ==
    /\ machine = "upload" /\ upload_state = "ready"
    /\ \E why \in Rejections : upload_state' = "returned"
    /\ upload_result' = "None"
    /\ UNCHANGED <<machine, attempt, slept, status_data, strava_synced, file_path,
                   repairVars, analyzeVars, batchVars>>

\* lines 333-346: the upload has an id, attempt = 0
UploadStarted ==
    /\ machine = "upload" /\ upload_state = "ready"
    /\ upload_state' = "polling"
    /\ attempt' = 0
    /\ UNCHANGED <<machine, slept, status_data, upload_result, strava_synced, file_path,
                   repairVars, analyzeVars, batchVars>>

\* one round of the while loop, lines 348-381
PollStatus ==
    /\ machine = "upload" /\ upload_state = "polling"
    /\ WithinAttempts(attempt)
    /\ slept' = slept + 2
    /\ attempt' = attempt + 1
    /\ \E response \in StatusResponses :
        /\ status_data' = response
        /\ IF PollOutcome(response) = "None"
           THEN /\ upload_result' = "None"
                /\ upload_state' = "returned"
                /\ UNCHANGED <<strava_synced, db>>
           ELSE IF PollOutcome(response) = "result"
           THEN /\ upload_result' = "result"
                /\ upload_state' = "returned"
                /\ strava_synced' = TRUE
                /\ LET workout_id == parse_workout_id_from_path(file_path)
                   IN  db' = update_sync_status(db, workout_id,
                                                NewActivityId(workout_id, 0))
           ELSE UNCHANGED <<upload_result, upload_state, strava_synced, db>>
    /\ UNCHANGED <<machine, file_path, repairVars, analyzeVars, workout_dirs, cursor, force,
                   analyzed, batch_state, fit_files, runs, pending, uploads>>

\* the loop condition fails: lines 383-384
PollTimedOut ==
    /\ machine = "upload" /\ upload_state = "polling"
    /\ ~WithinAttempts(attempt)
    /\ upload_state' = "returned"
    /\ upload_result' = "None"
    /\ UNCHANGED <<machine, attempt, slept, status_data, strava_synced, file_path,
                   repairVars, analyzeVars, batchVars>>

NextUpload == UploadRejected \/ UploadStarted \/ PollStatus \/ PollTimedOut

SpecUpload == InitUpload /\ [][NextUpload]_vars

\* every request made returns or raises, and the process is not stopped
SpecUploadFair == SpecUpload /\ WF_vars(NextUpload)

-----------------------------------------------------------------------------
(* Claims about one upload (SpecUploadFair) *)

\* what holds at every moment of a call
PollingBounded ==
    /\ attempt <= 30
    /\ slept = 2 * attempt
    /\ upload_result = "result" =>
            (status_data.ok /\ status_data.activity_id /\ ~status_data.error)
    /\ (attempt >= 1 /\ (~status_data.ok \/ status_data.error)) => upload_result = "None"
    /\ (attempt >= 1 /\ status_data.ok /\ status_data.activity_id /\ ~status_data.error)
            => upload_result = "result"
    /\ (upload_state = "returned" /\ attempt >= 1 /\ status_data.ok
            /\ ~status_data.activity_id /\ ~status_data.error)
            => (attempt = 30 /\ upload_result = "None")
    /\ upload_state = "returned" <=> upload_result # "pending"

\* C18: upload_to_strava polls the upload status at a fixed interval at most
\* 30 times and then always terminates: it returns a result as soon as a
\* status response carries an activity_id and no error, returns None as soon
\* as a status response carries an error or a request fails, and returns
\* None after the 30th poll when no activity id has appeared.
C18_PollingTerminates == []PollingBounded /\ <>(upload_state = "returned")

\* the call gave up after 30 polls that all said "still processing"
C18_Witness ==
    /\ machine = "upload"
    /\ upload_state = "returned"
    /\ attempt = 30
    /\ slept = 60
    /\ upload_result = "None"
    /\ status_data = [ok |-> TRUE, activity_id |-> FALSE, error |-> FALSE]

-----------------------------------------------------------------------------
(* Claims about the sync columns in one upload (SpecUpload) *)

\* the step is a status poll that came back with an activity_id and no error
PollGaveActivity ==
    /\ upload_state = "polling"
    /\ attempt' = attempt + 1
    /\ status_data'.ok /\ status_data'.activity_id /\ ~status_data'.error

SyncColumns(row) ==
    <<row.strava_synced, row.strava_activity_id, row.strava_activity_url>>

\* a step changes sync columns only as update_sync_status does for the
\* uploaded file's workout, and only in a poll that gave an activity
SyncedOnlyAfterActivity ==
    IF PollGaveActivity
    THEN /\ upload_result' = "result"
         /\ \A id \in DOMAIN db :
              IF id = parse_workout_id_from_path(file_path) /\ db[id].present
              THEN /\ db'[id].strava_synced = 1
                   /\ db'[id].strava_activity_id = NewActivityId(id, 0)
                   /\ db'[id].strava_activity_url = ActivityUrl(NewActivityId(id, 0))
              ELSE db'[id] = db[id]
    ELSE /\ DOMAIN db' = DOMAIN db
         /\ \A id \in DOMAIN db : SyncColumns(db'[id]) = SyncColumns(db[id])

\* C29: a workout row's strava_synced changes from 0 to 1 only in
\* update_sync_status, which upload_to_strava calls only after a status poll
\* returned an activity_id and no error; when the upload request fails, a poll
\* reports an error (even together with an activity_id), a poll request fails
\* or the 30 polls run out, strava_synced, strava_activity_id and
\* strava_activity_url of every row are left unchanged.
C29_SyncedOnlyAfterActivity == [][SyncedOnlyAfterActivity]_vars

\* a poll reported an error together with an activity_id: the call returned
\* None and the analyzed row of the uploaded file is still unsynced
C29_Witness ==
    /\ machine = "upload"
    /\ upload_state = "returned"
    /\ upload_result = "None"
    /\ status_data = [ok |-> TRUE, activity_id |-> TRUE, error |-> TRUE]
    /\ file_path = FitPath(1, "swimming")
    /\ db # << >>
    /\ db[1] = AnalyzedRow(1, "swimming")

====
